---- MODULE Spec2Model ----
(***************************************************************************)
(* State-machine model of the TAKAT video orchestration layer of           *)
(* OpenTAKServer: the OTP/UID credential manager (util.py), the Video      *)
(* session object (Video_Object.py) and the process-wide session registry  *)
(* (List_Video_Objects.py).                                                *)
(*                                                                         *)
(* Python values are modelled as follows: str -> TLA+ string, list ->      *)
(* sequence, tuple (uid, name) -> <<uid, name>>, None -> PyNone.  A call   *)
(* that raises is modelled by an outcome record [kind |-> "raise", ...].   *)
(***************************************************************************)
EXTENDS Integers, Sequences, FiniteSets, TLC

VARIABLES
    _uids,          \* OTP_UID_Manager._uids : list of (uid, name)
    _otp,           \* OTP_UID_Manager._otp
    uuidDrawn,      \* how many uuid4() values the credential manager drew
    call,           \* the last OTP_UID_Manager call: operation, arguments, result
    VIDEO_OBJECTS,  \* List_Video_Objects.VIDEO_OBJECTS : list of Video_Object
    reg,            \* the last registry call: operation, arguments, outcome
    pc,             \* per thread: where it is inside add_video_object
    frame,          \* per thread: the locals of its add_video_object call
    http,           \* MediaMTX_API_Interface: the call in progress and its result
    camera,         \* Camera_Object: its fields and the last call made on it
    session,        \* Video_Object: its cameras, shared config and last call
    config,         \* MediaMTX_Path_Config: its attributes and the last call
    link,           \* Safe_Link: its fields and the last call made on it
    server,         \* Takat_Video_API: its globals and the last ServerSetup
    ffmpeg          \* FFMPEG_Command_Builder: its fields and the last call

credVars == <<_uids, _otp, uuidDrawn, call>>

regVars == <<VIDEO_OBJECTS, reg>>

threadVars == <<pc, frame>>

mediaVars == <<http, camera, session, config>>

apiVars == <<link, server, ffmpeg>>

vars == <<_uids, _otp, uuidDrawn, call, VIDEO_OBJECTS, reg, pc, frame,
          http, camera, session, config, link, server, ffmpeg>>

-----------------------------------------------------------------------------
(* Bounds of the model *)

\* longest roster the model lets add_uid / add_random_uid build
MaxRoster == 3

\* number of uuid4() draws one credential manager makes
MaxGen == 2

-----------------------------------------------------------------------------
(* Python values *)

PyNone == "<None>"

\* util.py:292  min_len, max_len = 8, 32
min_len == 8

max_len == 32

\* UIDs a caller passes in
UserUIDs == {"u1"}

\* uuid.uuid4().hex : the n-th value drawn; every draw is a value never seen
\* before (a 122-bit random number), so the n-th draw differs from all earlier
\* draws and from every UID a caller could have supplied before it was drawn
uuid4(n) ==
    <<"r1", "r2", "r3", "r4", "r5", "r6", "r7", "r8", "r9", "r10", "r11", "r12",
      "r13", "r14", "r15">>[n]

\* role names a caller passes in
Names == {"primary_uid", "source_camera"}

\* OTPs a caller passes in: too short, too long
SeedOTPs == {"abc", "this-seed-otp-is-longer-than-32-chars"}

\* lengths random.randint(min_len, max_len) is let to draw
LengthDraws == {min_len, max_len}

\* the random characters secrets.token_urlsafe draws from (base64url alphabet)
TokenStream == "Zx3_kQ9-aB7cD1eF5gH2iJ8kL4mN6oP0qR_sT-uVwXyZ"

-----------------------------------------------------------------------------
(* Sequence helpers (Python list semantics) *)

Range(s) == {s[i] : i \in 1..Len(s)}

\* list.remove(x): drop the first element equal to x
RECURSIVE ListRemove(_, _)
ListRemove(s, x) ==
    IF s = <<>> THEN <<>>
    ELSE IF Head(s) = x THEN Tail(s)
    ELSE <<Head(s)>> \o ListRemove(Tail(s), x)

\* number of elements of s equal to x
RECURSIVE Count(_, _)
Count(s, x) ==
    IF s = <<>> THEN 0
    ELSE (IF Head(s) = x THEN 1 ELSE 0) + Count(Tail(s), x)

-----------------------------------------------------------------------------
(* OTP_UID_Manager (util.py), as pure functions of the manager's fields *)

\* secrets.token_urlsafe(nbytes): base64url text of nbytes random bytes,
\* ceil(4 * nbytes / 3) characters
token_urlsafe(nbytes) == SubSeq(TokenStream, 1, (4 * nbytes + 2) \div 3)

Max(a, b) == IF a >= b THEN a ELSE b

Min(a, b) == IF a <= b THEN a ELSE b

\* _generate_otp(length): drawn is the value random.randint would return
_generate_otp(length, drawn) ==
    LET n == IF length = PyNone THEN drawn
             ELSE Max(min_len, Min(max_len, length))
    IN  SubSeq(token_urlsafe(n), 1, n)

\* __init__(uid, otp): drawnUid is the uuid4 value, drawnLen the randint value
OTP_UID_Manager(uid, otp, drawnUid, drawnLen) ==
    [uids |-> << <<(IF uid = PyNone THEN drawnUid ELSE uid), "primary_uid">> >>,
     otp  |-> IF otp # PyNone THEN otp ELSE _generate_otp(PyNone, drawnLen)]

\* property primary_uid
RECURSIVE primary_uid(_)
primary_uid(uids) ==
    IF uids = <<>> THEN ""
    ELSE IF Head(uids)[2] = "primary_uid" THEN Head(uids)[1]
    ELSE primary_uid(Tail(uids))

\* reset(uid_name, otp)
reset(uid_name, otp, drawnUid, drawnLen) ==
    [uids |-> IF uid_name = PyNone THEN << <<drawnUid, "primary_uid">> >>
              ELSE << <<uid_name[1], uid_name[2]>> >>,
     otp  |-> IF otp # PyNone THEN otp ELSE _generate_otp(PyNone, drawnLen)]

\* any(u == uid for u, _ in self._uids)
RECURSIVE AnyUid(_, _)
AnyUid(uids, uid) ==
    IF uids = <<>> THEN FALSE
    ELSE IF Head(uids)[1] = uid THEN TRUE
    ELSE AnyUid(Tail(uids), uid)

valid_otp_only(uids, stored, otp, uid) == stored = otp

\* valid(otp, uid)
valid(uids, stored, otp, uid) == stored = otp /\ AnyUid(uids, uid)

add_uid_unchecked(uids, uid, name) ==
    [uids |-> Append(uids, <<uid, name>>), ret |-> TRUE]

add_uid_always_true(uids, uid, name) ==
    IF <<uid, name>> \notin Range(uids)
    THEN [uids |-> Append(uids, <<uid, name>>), ret |-> TRUE]
    ELSE [uids |-> uids, ret |-> TRUE]

\* add_uid(uid, name)
add_uid(uids, uid, name) ==
    IF <<uid, name>> \notin Range(uids)
    THEN [uids |-> Append(uids, <<uid, name>>), ret |-> TRUE]
    ELSE [uids |-> uids, ret |-> FALSE]

\* add_random_uid(name): drawnUid is the uuid4 value
add_random_uid(uids, name, drawnUid) ==
    [uids |-> Append(uids, <<drawnUid, name>>), ret |-> drawnUid]

\* remove_uid(uid, name): the for loop from position i on
RECURSIVE remove_uid_from(_, _, _, _)
remove_uid_from(uids, i, uid, name) ==
    IF i > Len(uids) THEN [uids |-> uids, ret |-> FALSE]
    ELSE LET pair == uids[i] IN
         IF pair[1] = uid
         THEN IF pair[2] = "primary_uid" THEN [uids |-> uids, ret |-> FALSE]
              ELSE IF name = PyNone \/ pair[2] = name
                   THEN [uids |-> ListRemove(uids, pair), ret |-> TRUE]
                   ELSE remove_uid_from(uids, i + 1, uid, name)
         ELSE remove_uid_from(uids, i + 1, uid, name)

remove_uid(uids, uid, name) == remove_uid_from(uids, 1, uid, name)

\* find_uid_by_name(name)
RECURSIVE find_uid_by_name(_, _)
find_uid_by_name(uids, name) ==
    IF uids = <<>> THEN <<>>
    ELSE (IF Head(uids)[2] = name THEN <<Head(uids)[1]>> ELSE <<>>)
         \o find_uid_by_name(Tail(uids), name)

-----------------------------------------------------------------------------
(* The credential manager as a state machine: construction, then any calls *)

\* UIDs a caller can pass: its own, and the random ones already handed out
KnownUIDs == UserUIDs \cup {uuid4(n) : n \in 1..uuidDrawn}

\* OTPs a caller can pass to valid: seeds, the stored one, a near miss
GuessOTPs == SeedOTPs \cup {_otp, _otp \o "x"}

\* random.randint is called only when no OTP was passed
RandintDraws(otp) == IF otp = PyNone THEN LengthDraws ELSE {min_len}

\* the record of a call; again (kept for add_uid): the call before it was the
\* same operation with the same arguments, and prevRet is what that one returned
Call(op, uid, name, otp, ret) ==
    LET again == /\ op = "add_uid"
                 /\ call.op = op /\ call.uid = uid
                 /\ call.name = name /\ call.otp = otp
    IN  [op |-> op, uid |-> uid, name |-> name, otp |-> otp, ret |-> ret,
         again |-> again, prevRet |-> IF again THEN call.ret ELSE PyNone]

FirstCall(op) ==
    [op |-> op, uid |-> PyNone, name |-> PyNone, otp |-> PyNone, ret |-> PyNone,
     again |-> FALSE, prevRet |-> PyNone]

\* the registry as the module is loaded, no call made yet, no thread started
RegistryIdle ==
    /\ VIDEO_OBJECTS = <<>>
    /\ reg = [op |-> "load", obj |-> PyNone, uid |-> PyNone, otp |-> PyNone,
              out |-> PyNone]

Threads == {1, 2}

ThreadsIdle ==
    /\ pc = [t \in Threads |-> "idle"]
    /\ frame = [t \in Threads |-> PyNone]

\* no Path-Management Client, Camera_Object, Video_Object or path
\* configuration is in use
HttpIdle == http = [phase |-> "unused"]

CameraIdle == camera = [phase |-> "unused"]

SessionIdle == session = [phase |-> "unused"]

ConfigIdle == config = [phase |-> "unused"]

MediaIdle == HttpIdle /\ CameraIdle /\ SessionIdle /\ ConfigIdle

\* no Safe_Link, ServerSetup request or FFMPEG_Command_Builder is in use
LinkIdle == link = [phase |-> "unused"]

SetupIdle == server = [phase |-> "unused"]

BuilderIdle == ffmpeg = [phase |-> "unused"]

ApiIdle == LinkIdle /\ SetupIdle /\ BuilderIdle

InitCred ==
    /\ RegistryIdle
    /\ ThreadsIdle
    /\ ApiIdle
    /\ MediaIdle
    /\ \E uid \in UserUIDs \cup {PyNone}, otp \in SeedOTPs \cup {PyNone} :
       \E drawnLen \in RandintDraws(otp) :
        LET m == OTP_UID_Manager(uid, otp, uuid4(1), drawnLen) IN
        /\ _uids = m.uids
        /\ _otp = m.otp
        /\ uuidDrawn = IF uid = PyNone THEN 1 ELSE 0
        /\ call = FirstCall("__init__")

Do_add_uid ==
    \E uid \in KnownUIDs, name \in Names :
        LET r == add_uid(_uids, uid, name) IN
        /\ Len(r.uids) <= MaxRoster
        /\ _uids' = r.uids
        /\ call' = Call("add_uid", uid, name, PyNone, r.ret)
        /\ UNCHANGED <<_otp, uuidDrawn, regVars, threadVars, mediaVars, apiVars>>

Do_add_random_uid ==
    \E name \in Names :
        LET r == add_random_uid(_uids, name, uuid4(uuidDrawn + 1)) IN
        /\ uuidDrawn < MaxGen
        /\ Len(r.uids) <= MaxRoster
        /\ _uids' = r.uids
        /\ uuidDrawn' = uuidDrawn + 1
        /\ call' = Call("add_random_uid", PyNone, name, PyNone, r.ret)
        /\ UNCHANGED <<_otp, regVars, threadVars, mediaVars, apiVars>>

Do_remove_uid ==
    \E uid \in KnownUIDs, name \in Names \cup {PyNone} :
        LET r == remove_uid(_uids, uid, name) IN
        /\ _uids' = r.uids
        /\ call' = Call("remove_uid", uid, name, PyNone, r.ret)
        /\ UNCHANGED <<_otp, uuidDrawn, regVars, threadVars, mediaVars, apiVars>>

Do_reset ==
    \E uid_name \in {PyNone} \cup (KnownUIDs \X Names),
       otp \in SeedOTPs \cup {PyNone} :
    \E drawnLen \in RandintDraws(otp) :
        LET r == reset(uid_name, otp, uuid4(uuidDrawn + 1), drawnLen) IN
        /\ uid_name = PyNone => uuidDrawn < MaxGen
        /\ _uids' = r.uids
        /\ _otp' = r.otp
        /\ uuidDrawn' = IF uid_name = PyNone THEN uuidDrawn + 1 ELSE uuidDrawn
        /\ call' = FirstCall("reset")
        /\ UNCHANGED <<regVars, threadVars, mediaVars, apiVars>>

Do_valid ==
    \E otp \in GuessOTPs, uid \in KnownUIDs :
        /\ call' = Call("valid", uid, PyNone, otp, valid(_uids, _otp, otp, uid))
        /\ UNCHANGED <<_uids, _otp, uuidDrawn, regVars, threadVars, mediaVars, apiVars>>

NextCred ==
    \/ Do_add_uid
    \/ Do_add_random_uid
    \/ Do_remove_uid
    \/ Do_reset
    \/ Do_valid

SpecCred == InitCred /\ [][NextCred]_vars

-----------------------------------------------------------------------------
(* Outcomes of a Python call *)

\* the call returned v
Ok(v) == [kind |-> "return", isNone |-> FALSE, val |-> v]

\* the call returned None
OkNone == [kind |-> "return", isNone |-> TRUE, val |-> PyNone]

\* the call raised exception e
Raise(e) == [kind |-> "raise", isNone |-> FALSE, val |-> e]

-----------------------------------------------------------------------------
(* Video_Object (blueprints/TakatVideo_api/Video_Object.py) *)

\* Video_Object.__init__, the part that sets the identity of the session:
\* id is the identity of the Python object, drawnLen the randint value of the
\* OTP generator; the session draws its random UIDs from uuid4(3*id-2),
\* uuid4(3*id-1) and uuid4(3*id)
Video_Object(id, uid, virtual_camera_uid, source_camera_uid, linked_device, drawnLen) ==
    LET linked0 == IF linked_device = PyNone THEN "None" ELSE linked_device
        cred0   == OTP_UID_Manager(uid, PyNone, uuid4(3 * id - 2), drawnLen)
        \* self._uid = self._credentials.find_uid_by_name("primary_key")
        uid0    == find_uid_by_name(cred0.uids, "primary_key")
        uids1   == add_uid(cred0.uids,
                           IF source_camera_uid = PyNone THEN uuid4(3 * id - 1)
                           ELSE source_camera_uid,
                           "source_camera").uids
        uids2   == add_uid(uids1,
                           IF virtual_camera_uid = PyNone THEN uuid4(3 * id)
                           ELSE virtual_camera_uid,
                           "virtual_camera").uids
        linked1 == IF virtual_camera_uid = PyNone /\ linked0 = "None"
                   THEN find_uid_by_name(uids2, "virtual_camera")[1]
                   ELSE linked0
    IN  [id |-> id,
         _uid |-> uid0,
         _otp |-> cred0.otp,
         _linked_device |-> linked1,
         _credentials |-> [uids |-> uids2, otp |-> cred0.otp]]

\* the properties and methods class Video_Object defines, and its public fields
Video_Object_members ==
    {"UID", "OTP", "CheckCamerasStatus", "RemoveAllPaths", "ValidCredentials",
     "to_dict", "Source_Camera", "Virtual_Camera"}

\* property UID: return self._uid[0]
UID(obj) == IF Len(obj._uid) = 0 THEN Raise("IndexError") ELSE Ok(obj._uid[1])

\* obj.<name> : Python attribute lookup on a Video_Object
getattr(obj, name) ==
    IF name \notin Video_Object_members THEN Raise("AttributeError")
    ELSE IF name = "UID" THEN UID(obj)
    ELSE IF name = "OTP" THEN Ok(obj._otp)
    ELSE Ok(name)

\* Video_Object.ValidCredentials(otp, uid)
ValidCredentials(obj, otp, uid) ==
    IF valid(obj._credentials.uids, obj._credentials.otp, otp, uid) = TRUE
    THEN TRUE ELSE FALSE

-----------------------------------------------------------------------------
(* The registry (blueprints/TakatVideo_api/List_Video_Objects.py) *)

\* get_video_object_by_uid(uid): the for loop over objs
RECURSIVE get_video_object_by_uid(_, _)
get_video_object_by_uid(objs, uid) ==
    IF objs = <<>> THEN OkNone
    ELSE LET obj == Head(objs)
             cam == getattr(obj, "Camera_UID")
             lnk == getattr(obj, "Linked_UID")
         IN  IF cam.kind = "raise" THEN cam
             ELSE IF cam.val = uid THEN Ok(obj)
             ELSE IF lnk.kind = "raise" THEN lnk
             ELSE IF lnk.val = uid THEN Ok(obj)
             ELSE get_video_object_by_uid(Tail(objs), uid)

\* add_video_object(obj): the outcome, and the list it leaves
add_video_object(objs, obj) ==
    LET u == getattr(obj, "UID")
        g == get_video_object_by_uid(objs, u.val)
    IN  IF u.kind = "raise" THEN [objs |-> objs, out |-> u]
        ELSE IF g.kind = "raise" THEN [objs |-> objs, out |-> g]
        ELSE IF g.isNone THEN [objs |-> Append(objs, obj), out |-> Ok(TRUE)]
        ELSE [objs |-> objs, out |-> Ok(FALSE)]

\* [v for v in VIDEO_OBJECTS if v.Camera_UID != camera_uid]
RECURSIVE FilterNotCamera(_, _)
FilterNotCamera(objs, camera_uid) ==
    IF objs = <<>> THEN Ok(<<>>)
    ELSE LET cam  == getattr(Head(objs), "Camera_UID")
             rest == FilterNotCamera(Tail(objs), camera_uid)
         IN  IF cam.kind = "raise" THEN cam
             ELSE IF rest.kind = "raise" THEN rest
             ELSE IF cam.val # camera_uid THEN Ok(<<Head(objs)>> \o rest.val)
             ELSE rest

\* remove_video_object_by_uid(camera_uid): the outcome, and the list it leaves
remove_video_object_by_uid(objs, camera_uid) ==
    LET kept == FilterNotCamera(objs, camera_uid)
    IN  IF kept.kind = "raise" THEN [objs |-> objs, out |-> kept]
        ELSE [objs |-> kept.val, out |-> Ok(Len(kept.val) < Len(objs))]

\* get_video_object_by_uid_and_otp(uid, otp): the for loop over objs
RECURSIVE get_video_object_by_uid_and_otp(_, _, _)
get_video_object_by_uid_and_otp(objs, uid, otp) ==
    IF objs = <<>> THEN OkNone
    ELSE LET obj == Head(objs)
             access_allowed == getattr(obj, "access_allowed")
         IN  IF access_allowed.kind = "raise" THEN access_allowed
             ELSE IF access_allowed.val[uid, otp] THEN Ok(obj)
             ELSE get_video_object_by_uid_and_otp(Tail(objs), uid, otp)

-----------------------------------------------------------------------------
(* The registry as a state machine *)

\* longest list of sessions the registry is given to start from
MaxRegistry == 2

\* UIDs of linked devices and cameras a caller passes in
DeviceUIDs == {"u1", "u2", "d1"}

\* the sessions a caller can construct and pass to the registry
Sessions ==
    {Video_Object(id, uid, vc, sc, ld, min_len) :
        id \in 1..MaxRegistry + 1, uid \in {"u1", "u2"},
        vc \in {PyNone, "d1"}, sc \in {PyNone, "u1"},
        ld \in {PyNone} \cup DeviceUIDs}

\* every UID that occurs in a session, and one that occurs in none
LookupUIDs == DeviceUIDs \cup {uuid4(2), uuid4(3)} \cup {"nobody"}

LookupOTPs == {s._otp : s \in Sessions} \cup {"abc"}

RegCall(op, obj, uid, otp, out) ==
    [op |-> op, obj |-> obj, uid |-> uid, otp |-> otp, out |-> out]

\* the registry starts as the module leaves it: empty
InitRegistry ==
    /\ RegistryIdle
    /\ ThreadsIdle
    /\ ApiIdle
    /\ MediaIdle
    /\ _uids = << <<"u1", "primary_uid">> >>
    /\ _otp = "abc"
    /\ uuidDrawn = 0
    /\ call = FirstCall("__init__")

\* the registry functions as functions of the list: VIDEO_OBJECTS is given any
\* list of up to MaxRegistry distinct sessions
InitRegistryFn ==
    /\ ThreadsIdle
    /\ ApiIdle
    /\ MediaIdle
    /\ _uids = << <<"u1", "primary_uid">> >>
    /\ _otp = "abc"
    /\ uuidDrawn = 0
    /\ call = FirstCall("__init__")
    /\ reg = RegCall("load", PyNone, PyNone, PyNone, PyNone)
    /\ \E n \in 0..MaxRegistry :
        \E objs \in [1..n -> {s \in Sessions : s._linked_device \in {"None", "d1"}}] :
            /\ \A i \in 1..n : objs[i].id = i
            /\ VIDEO_OBJECTS = objs

Do_add_video_object ==
    \E obj \in Sessions :
        LET r == add_video_object(VIDEO_OBJECTS, obj) IN
        /\ \A i \in 1..Len(VIDEO_OBJECTS) : VIDEO_OBJECTS[i].id # obj.id
        /\ Len(r.objs) <= MaxRegistry + 1
        /\ VIDEO_OBJECTS' = r.objs
        /\ reg' = RegCall("add_video_object", obj, PyNone, PyNone, r.out)
        /\ UNCHANGED <<credVars, threadVars, mediaVars, apiVars>>

Do_remove_video_object_by_uid ==
    \E camera_uid \in LookupUIDs :
        LET r == remove_video_object_by_uid(VIDEO_OBJECTS, camera_uid) IN
        /\ VIDEO_OBJECTS' = r.objs
        /\ reg' = RegCall("remove_video_object_by_uid", PyNone, camera_uid,
                          PyNone, r.out)
        /\ UNCHANGED <<credVars, threadVars, mediaVars, apiVars>>

Do_get_video_object_by_uid ==
    \E uid \in LookupUIDs :
        /\ reg' = RegCall("get_video_object_by_uid", PyNone, uid, PyNone,
                          get_video_object_by_uid(VIDEO_OBJECTS, uid))
        /\ UNCHANGED <<VIDEO_OBJECTS, credVars, threadVars, mediaVars, apiVars>>

Do_get_video_object_by_uid_and_otp ==
    \E uid \in LookupUIDs, otp \in LookupOTPs :
        /\ reg' = RegCall("get_video_object_by_uid_and_otp", PyNone, uid, otp,
                          get_video_object_by_uid_and_otp(VIDEO_OBJECTS, uid, otp))
        /\ UNCHANGED <<VIDEO_OBJECTS, credVars, threadVars, mediaVars, apiVars>>

NextRegistry ==
    \/ Do_add_video_object
    \/ Do_remove_video_object_by_uid
    \/ Do_get_video_object_by_uid
    \/ Do_get_video_object_by_uid_and_otp

SpecRegistry == InitRegistry /\ [][NextRegistry]_vars

SpecRegistryFn == InitRegistryFn /\ [][NextRegistry]_vars

-----------------------------------------------------------------------------
(* add_video_object called from several threads: nothing in                 *)
(* List_Video_Objects.py guards VIDEO_OBJECTS, so the steps of two calls    *)
(* interleave at every point where the interpreter can switch threads       *)

\* thread t calls add_video_object(obj)
Thread_call(t) ==
    \E obj \in Sessions :
        /\ pc[t] = "idle"
        /\ obj.id = t
        /\ pc' = [pc EXCEPT ![t] = "eval_UID"]
        /\ frame' = [frame EXCEPT ![t] = [obj |-> obj, uid |-> PyNone,
                                          out |-> PyNone]]
        /\ UNCHANGED <<credVars, regVars, mediaVars, apiVars>>

\* thread t runs the next step of its add_video_object call:
\*   eval_UID    the argument obj.UID
\*   lookup      get_video_object_by_uid(...) is None
\*   append      VIDEO_OBJECTS.append(obj)
\*   return_true return True
add_video_object_step(t) ==
    /\ pc[t] \notin {"idle", "done"}
    /\ LET f == frame[t]
           u == getattr(f.obj, "UID")
           g == get_video_object_by_uid(VIDEO_OBJECTS, f.uid)
           done(out) == /\ pc' = [pc EXCEPT ![t] = "done"]
                        /\ frame' = [frame EXCEPT ![t].out = out]
                        /\ UNCHANGED VIDEO_OBJECTS
       IN  CASE pc[t] = "eval_UID" ->
                    IF u.kind = "raise" THEN done(u)
                    ELSE /\ pc' = [pc EXCEPT ![t] = "lookup"]
                         /\ frame' = [frame EXCEPT ![t].uid = u.val]
                         /\ UNCHANGED VIDEO_OBJECTS
             [] pc[t] = "lookup" ->
                    IF g.kind = "raise" THEN done(g)
                    ELSE IF g.isNone
                    THEN /\ pc' = [pc EXCEPT ![t] = "append"]
                         /\ UNCHANGED <<frame, VIDEO_OBJECTS>>
                    ELSE done(Ok(FALSE))
             [] pc[t] = "append" ->
                    /\ VIDEO_OBJECTS' = Append(VIDEO_OBJECTS, f.obj)
                    /\ pc' = [pc EXCEPT ![t] = "return_true"]
                    /\ UNCHANGED frame
             [] pc[t] = "return_true" -> done(Ok(TRUE))
    /\ UNCHANGED <<credVars, reg, mediaVars, apiVars>>

NextThreads == \E t \in Threads : Thread_call(t) \/ add_video_object_step(t)

SpecThreads == InitRegistry /\ [][NextThreads]_vars

-----------------------------------------------------------------------------
(* Claims about the registry *)

\* the primary UID of a session: the primary entry of its credentials
PrimaryOf(obj) == primary_uid(obj._credentials.uids)

\* the UIDs a session is known by: its primary UID and its linked-device UID
SessionUIDs(obj) == {PrimaryOf(obj), obj._linked_device}

C2_DuplicateAddRejected ==
    [][(/\ reg'.op = "add_video_object"
        /\ \E i \in 1..Len(VIDEO_OBJECTS) :
               PrimaryOf(VIDEO_OBJECTS[i]) = PrimaryOf(reg'.obj))
         => /\ reg'.out.kind = "return"
            /\ reg'.out.val = FALSE
            /\ VIDEO_OBJECTS' = VIDEO_OBJECTS]_vars

Inside(t) == pc[t] \notin {"idle", "done"}

Registered(t) == \E i \in 1..Len(VIDEO_OBJECTS) : VIDEO_OBJECTS[i].id = t

ReturnedTrue(t) ==
    pc[t] = "done" /\ frame[t].out.kind = "return" /\ frame[t].out.val = TRUE

C4_LookupByCredentials ==
    reg.op = "get_video_object_by_uid_and_otp" =>
        /\ reg.out.kind = "return"
        /\ ~reg.out.isNone =>
               /\ reg.out.val \in Range(VIDEO_OBJECTS)
               /\ ValidCredentials(reg.out.val, reg.otp, reg.uid)
        /\ (\A i \in 1..Len(VIDEO_OBJECTS) :
                ~ValidCredentials(VIDEO_OBJECTS[i], reg.otp, reg.uid))
               => reg.out.isNone

-----------------------------------------------------------------------------
(* Claims about the credential manager, checked under SpecCred *)

UidsOf(uids) == {uids[i][1] : i \in 1..Len(uids)}

\* C5: valid(otp, uid) is true if and only if otp equals the stored OTP
\* exactly and uid appears in the roster under at least one role
C5_ValidIffOtpAndUid ==
    call.op = "valid" =>
        (call.ret <=> (call.otp = _otp /\ call.uid \in UidsOf(_uids)))

\* the OTP matches and the UID is in the roster under a non-primary role only:
\* valid answered true
C5_Witness ==
    /\ call.op = "valid" /\ call.ret = TRUE
    /\ call.uid # primary_uid(_uids)
    /\ <<call.uid, "source_camera">> \in Range(_uids)

\* C6: in every state reachable from construction through add_uid,
\* add_random_uid, remove_uid and reset, the roster holds exactly one entry
\* whose role is the primary role
C6_ExactlyOnePrimary ==
    Cardinality({i \in 1..Len(_uids) : _uids[i][2] = "primary_uid"}) = 1

\* C7: remove_uid(uid, role) with uid the primary UID returns false and leaves
\* the roster unchanged, for every role argument and every roster state
C7_RemovePrimaryFails ==
    [][(call'.op = "remove_uid" /\ call'.uid = primary_uid(_uids))
         => (call'.ret = FALSE /\ _uids' = _uids)]_vars

\* C8 as stated: add_uid called twice with the same pair returns true, then
\* false, and the roster then holds the pair exactly once and is the roster
\* the first call left
C8_Original ==
    [][(call'.op = "add_uid" /\ call'.again)
         => /\ call'.prevRet = TRUE
            /\ call'.ret = FALSE
            /\ Count(_uids', <<call'.uid, call'.name>>) = 1
            /\ _uids' = _uids]_vars

\* C8 amended: the first of the two calls returns true exactly when the pair
\* was not in the roster before it; the second returns false, and the roster
\* then holds the pair exactly once and is the roster the first call left
C8_AddUidIdempotent ==
    [][/\ call'.op = "add_uid"
           => (call'.ret <=> <<call'.uid, call'.name>> \notin Range(_uids))
       /\ (call'.op = "add_uid" /\ call'.again)
           => /\ call'.ret = FALSE
              /\ Count(_uids', <<call'.uid, call'.name>>) = 1
              /\ _uids' = _uids]_vars

\* add_uid was called twice with a new pair: true, then false
C8_Witness ==
    /\ call.op = "add_uid" /\ call.again
    /\ call.prevRet = TRUE /\ call.ret = FALSE
    /\ Len(_uids) >= 2

\* C9: every (uid, role) pair occurs at most once in the roster
C9_PairsUnique ==
    \A i, j \in 1..Len(_uids) : _uids[i] = _uids[j] => i = j

\* add_uid refused a pair that the roster (of several entries) already holds
C9_Witness ==
    /\ call.op = "add_uid" /\ call.ret = FALSE
    /\ Len(_uids) >= 2
    /\ <<call.uid, call.name>> \in Range(_uids)

\* C10: the stored OTP always has between 8 and 32 characters
C10_OtpLengthBounded == Len(_otp) >= min_len /\ Len(_otp) <= max_len

-----------------------------------------------------------------------------
(* MediaMTX_API_Interface (blueprints/TakatVideo_api/Video_Object.py): the  *)
(* Path-Management Client.  Every operation goes through _call, which       *)
(* sends one request through a requests.Session whose adapter carries       *)
(* Retry(total=3, backoff_factor=3, status_forcelist=[502, 503, 504]).      *)
(* One attempt of the adapter is one step of the model; the transport       *)
(* outcome of each attempt is chosen by the environment.                    *)

\* the credential manager as the registry specifications fix it
CredIdle ==
    /\ _uids = << <<"u1", "primary_uid">> >>
    /\ _otp = "abc"
    /\ uuidDrawn = 0
    /\ call = FirstCall("__init__")

\* Retry(total=3, ...): retries allowed after the first attempt
Retry_total == 3

\* Retry(..., status_forcelist=[502, 503, 504])
status_forcelist == {502, 503, 504}

\* Retry is built without allowed_methods, so urllib3's default applies:
\* only idempotent methods are retried on a response status or a read error
allowed_methods == {"HEAD", "GET", "PUT", "DELETE", "OPTIONS", "TRACE"}

\* the exceptions requests raises out of Session.request for a failed
\* transport, all subclasses of requests.RequestException
RequestException == {"ConnectionError", "ReadTimeout", "RetryError"}

\* status codes the external server answers with
ResponseStatuses == {200, 201, 204, 404, 500, 502, 503, 504}

\* what one attempt on the wire can end in
TransportOutcomes ==
    {[kind |-> "connect_error", status |-> 0],
     [kind |-> "read_error", status |-> 0]}
    \cup {[kind |-> "response", status |-> st] : st \in ResponseStatuses}

ClientOps == {"add_path", "patch_path", "delete_path", "is_alive",
              "get_path_config"}

\* the HTTP method each operation hands to _call
MethodOf(op) ==
    CASE op = "add_path" -> "POST"
      [] op = "patch_path" -> "PATCH"
      [] op = "delete_path" -> "DELETE"
      [] op = "is_alive" -> "GET"
      [] op = "get_path_config" -> "GET"

\* Retry.is_retry for a response: the method must be retryable and the
\* status in the forcelist (responses carry no Retry-After header here)
is_retry(method, status_code) ==
    method \in allowed_methods /\ status_code \in status_forcelist

\* Retry.increment lowers the total; Retry.is_exhausted
is_exhausted(total) == total < 0

\* whether the adapter makes another attempt after outcome o, and what
\* Session.request ends in when it does not
Retryable(method, o) ==
    CASE o.kind = "response" -> is_retry(method, o.status)
      [] o.kind = "connect_error" -> TRUE
      [] o.kind = "read_error" -> method \in allowed_methods

\* the result of Session.request once the adapter stops on outcome o: the
\* response, or the exception requests makes of the adapter's failure
request(method, o) ==
    IF o.kind = "response" /\ ~Retryable(method, o)
    THEN Ok(o.status)
    ELSE IF o.kind = "response" THEN Raise("RetryError")
    ELSE IF o.kind = "read_error" THEN Raise("ReadTimeout")
    ELSE Raise("ConnectionError")

\* _call without its except clause: the exception of the transport leaves
\* the client
_call_uncaught(return_full, response) == response

\* _call: the status code (or the whole response), 0 (or None) when
\* Session.request raised a RequestException
_call(return_full, response) ==
    IF response.kind = "raise"
    THEN IF response.val \in RequestException
         THEN (IF return_full THEN OkNone ELSE Ok(0))
         ELSE response
    ELSE response

\* add_path, patch_path, delete_path: the value of _call
path_operation(response) == _call(FALSE, response)

\* is_alive: bool(status and 200 <= status < 300)
is_alive(response) ==
    LET status == _call(FALSE, response) IN
    IF status.kind = "raise" THEN status
    ELSE Ok(status.val # 0 /\ 200 <= status.val /\ status.val < 300)

\* get_path_config: None unless the response is a 200 whose body parses
get_path_config(response, jsonParses) ==
    LET r == _call(TRUE, response) IN
    IF r.kind = "raise" THEN r
    ELSE IF r.isNone \/ r.val # 200 THEN OkNone
    ELSE IF jsonParses THEN Ok("<path config>")
    ELSE OkNone

\* the value the operation returns to its caller
ClientReturn(op, response, jsonParses) ==
    CASE op \in {"add_path", "patch_path", "delete_path"} ->
            path_operation(response)
      [] op = "is_alive" -> is_alive(response)
      [] op = "get_path_config" -> get_path_config(response, jsonParses)

NoOutcome == [kind |-> "none", status |-> 0]

\* the call has not returned yet
NoReturn == [kind |-> "pending", isNone |-> FALSE, val |-> PyNone]

\* a call of op that has not made its first attempt yet
StartCall(op, inInit, alive) ==
    [phase |-> "sending", op |-> op, method |-> MethodOf(op),
     attempts |-> 0, total |-> Retry_total, last |-> NoOutcome,
     allFailed |-> TRUE, inInit |-> inInit, alive |-> alive,
     ret |-> NoReturn]

\* __init__ mounts the adapter and ends in self.alive = self.is_alive():
\* the client starts in the middle of that first health check
InitClient ==
    /\ CredIdle
    /\ RegistryIdle
    /\ ThreadsIdle
    /\ ApiIdle
    /\ CameraIdle
    /\ SessionIdle
    /\ ConfigIdle
    /\ http = StartCall("is_alive", TRUE, FALSE)

\* a caller invokes one of the five operations on the idle client
Client_call(op) ==
    /\ http.phase = "done"
    /\ http' = StartCall(op, FALSE, http.alive)
    /\ UNCHANGED <<credVars, regVars, threadVars, camera, session, config, apiVars>>

\* one attempt of the adapter: the transport answers or fails, and the
\* adapter either tries again or hands the result to _call and the operation
Transport_attempt ==
    /\ http.phase = "sending"
    /\ \E o \in TransportOutcomes, jsonParses \in BOOLEAN :
        LET total1 == http.total - 1
            again == Retryable(http.method, o) /\ ~is_exhausted(total1)
            ret == ClientReturn(http.op, request(http.method, o), jsonParses)
        IN  http' = [http EXCEPT
                        !.attempts = @ + 1,
                        !.last = o,
                        !.allFailed = @ /\ o.kind # "response",
                        !.total = IF again THEN total1 ELSE @,
                        !.phase = IF again THEN "sending" ELSE "done",
                        !.ret = IF again THEN NoReturn ELSE ret,
                        \* __init__: self.alive = self.is_alive(), False
                        \* when that raised
                        !.alive = IF ~again /\ http.inInit
                                  THEN (ret.kind = "return" /\ ret.val)
                                  ELSE @]
    /\ UNCHANGED <<credVars, regVars, threadVars, camera, session, config, apiVars>>

NextClient ==
    \/ \E op \in ClientOps : Client_call(op)
    \/ Transport_attempt

SpecClient == InitClient /\ [][NextClient]_vars

\* C11: when every attempt of a call fails on the wire, the call ends after
\* at most 1 + Retry_total attempts, add_path / patch_path / delete_path
\* return 0, get_path_config returns None, and no exception leaves the client.
C11_TransportFailureYieldsSentinel ==
    /\ (http.phase = "sending" => http.attempts <= Retry_total)
    /\ (http.phase = "done" /\ http.allFailed =>
            /\ http.attempts <= Retry_total + 1
            /\ http.ret.kind = "return"
            /\ (http.op \in {"add_path", "patch_path", "delete_path"}
                    => http.ret = Ok(0))
            /\ (http.op = "get_path_config" => http.ret = OkNone))

\* a delete whose four attempts all failed to connect has returned
C11_Witness ==
    /\ http.phase = "done"
    /\ http.allFailed
    /\ http.op = "delete_path"
    /\ http.attempts = Retry_total + 1

\* C12: in every call, an attempt answered with 502, 503 or 504 is followed
\* by another attempt while retries remain, an attempt answered with any
\* other status ends the call, and no call makes more than 1 + 3 attempts.
C12_SameBoundedRetryForEveryCall ==
    [][(http.phase = "sending" /\ http'.attempts = http.attempts + 1) =>
        LET o == http'.last IN
        /\ http'.attempts <= Retry_total + 1
        /\ (o.kind = "response" /\ o.status \in {502, 503, 504}
                /\ http.attempts < Retry_total
             => http'.phase = "sending")
        /\ (o.kind = "response" /\ o.status \notin {502, 503, 504}
             => http'.phase = "done")]_vars

-----------------------------------------------------------------------------
(* MediaMTX_Path_Config (blueprints/TakatVideo_api/Video_Object.py)         *)
(* An instance is modelled by its attribute map; of the attributes set by   *)
(* __init__ the model keeps those the camera and session code writes.       *)

ConfigAttributes == {"name", "source", "runOnReady", "runOnNotReady"}

\* MediaMTX_Path_Config(name, source): the other attributes default to ""
MediaMTX_Path_Config(name, source) ==
    [k \in ConfigAttributes |->
        IF k = "name" THEN name ELSE IF k = "source" THEN source ELSE ""]

\* hasattr(self, key) on a configuration
config_hasattr(cfg, key) == key \in DOMAIN cfg

\* to_dict: a copy of the instance's attribute dictionary
config_to_dict(cfg) == [k \in DOMAIN cfg |-> cfg[k]]

\* update_value: sets the attribute when it exists, warns otherwise
update_value(cfg, key, value) ==
    IF config_hasattr(cfg, key) THEN [cfg EXCEPT ![key] = value] ELSE cfg

-----------------------------------------------------------------------------
(* FFMPEG_Command_Builder and Camera_Object                                 *)
(* (blueprints/TakatVideo_api/Video_Object.py)                              *)

\* the values of FFMPEG_Command_Builder.IngestType
IngestType == {0, 1, 2, 3}

\* the attributes the class FFMPEG_Command_Builder defines
FFMPEG_Command_Builder_members ==
    {"IngestType", "__init__", "metadata_template", "allowed_types",
     "last_type_used", "update_metadata", "run_on_ready", "_ingest",
     "to_dict"}

\* the parameters FFMPEG_Command_Builder.__init__ accepts
FFMPEG_Command_Builder_params ==
    {"uid", "linked_device", "otp", "timeout", "input_type"}

\* FFMPEG_Command_Builder(...): the instance, or TypeError for a keyword the
\* constructor does not have
FFMPEG_Command_Builder(kwargs) ==
    IF DOMAIN kwargs \subseteq FFMPEG_Command_Builder_params
    THEN Ok([UID |-> kwargs.uid, Linked_Device |-> kwargs.linked_device,
             OTP |-> kwargs.otp])
    ELSE Raise("TypeError")

\* a method looked up on the builder (class or instance): AttributeError
\* when the class does not define it
ffmpeg_getattr(name) ==
    IF name \in FFMPEG_Command_Builder_members
    THEN Ok(name)
    ELSE Raise("AttributeError")

\* what Session.request can end in for a method once the adapter is done
FinalResults(method) == {request(method, o) : o \in TransportOutcomes}

\* the HTTP status an external call ended with, 0 for a failed transport
ExternalStatus(response) ==
    IF response.kind = "return" THEN response.val ELSE 0

\* the status an operation stores for the outcome r of a client call:
\* the client's value, 503 for ConnectionError, 500 for any other exception
StatusOf(r) ==
    IF r.kind = "return" THEN r.val
    ELSE IF r.val = "ConnectionError" THEN 503 ELSE 500

\* Add_Path acting on the fields of self: adds the path, stores the status
\* and message, returns the status
Add_Path(self, response) ==
    LET r == path_operation(response)
        status == StatusOf(r)
    IN  [self EXCEPT
            !._statuscode = status,
            !._status_message =
                IF r.kind = "return" THEN "MediaMTX server added path"
                ELSE IF r.val = "ConnectionError"
                     THEN "MediaMTX server unreachable"
                     ELSE "MediaMTX server Unexpected error adding path: "
                          \o r.val,
            !.lastExternal = ExternalStatus(response),
            !.op = "Add_Path",
            !.ret = Ok(status)]

\* the body of Camera_Object.__init__ from line 501 on, for the fields it
\* sets, given that the builder lookups of lines 507 and 523 succeeded
Camera_Object_fields(Camera_UID, OTP, cfg, StreamingPort, Input_Type, response) ==
    LET self0 == [phase |-> "object",
                  _statuscode |-> 0,
                  _status_message |-> "",
                  _otp |-> OTP,
                  _streamingport |-> StreamingPort,
                  _input_type |-> IF Input_Type \notin IngestType
                                  THEN 0 ELSE Input_Type,
                  _camera_UID |-> Camera_UID,
                  _config |-> cfg,
                  _ffmpeg_command |-> [UID |-> Camera_UID,
                                       Linked_Device |-> Camera_UID,
                                       OTP |-> OTP],
                  lastExternal |-> 0,
                  op |-> "__init__",
                  ret |-> OkNone]
        self1 == Add_Path(self0, response)
        status == self1.ret.val
    IN  [self1 EXCEPT
            !._status_message =
                IF status # 200
                THEN "Failed to initialize camera " \o Camera_UID
                     \o ". Status code: " \o ToString(status)
                ELSE "Camera " \o Camera_UID \o " initialized successfully.",
            !._statuscode = IF status # 200 THEN status ELSE 200,
            !.op = "__init__",
            !.ret = OkNone]

\* MediaMTX_API_Interface(managed_path=...): ValueError for an empty path
MediaMTX_API_Interface(managed_path) ==
    IF managed_path = "" THEN Raise("ValueError") ELSE Ok(managed_path)

\* TakatVideo_API_Interface(protocol=...): ValueError unless http or https
TakatVideo_API_Interface(protocol) ==
    IF protocol \notin {"http", "https"}
    THEN Raise("ValueError") ELSE Ok(protocol)

\* Camera_Object(...): line 507 looks up FFMPEG_Command_Builder.ingest_types,
\* lines 519 and 521 build the two API clients and line 523 builds the
\* command builder with the keywords UID, Linked_Device and OTP; the first
\* of these to raise ends __init__ with its exception
Camera_Object(Camera_UID, OTP, cfg, StreamingPort, Input_Type, TakatProtocol, response) ==
    LET lookup == ffmpeg_getattr("ingest_types")
        mtx == MediaMTX_API_Interface(Camera_UID)
        takat == TakatVideo_API_Interface(TakatProtocol)
        builder == FFMPEG_Command_Builder(
                       [UID |-> Camera_UID, Linked_Device |-> Camera_UID,
                        OTP |-> OTP, input_type |-> Input_Type])
    IN  IF lookup.kind = "raise" THEN lookup
        ELSE IF mtx.kind = "raise" THEN mtx
        ELSE IF takat.kind = "raise" THEN takat
        ELSE IF builder.kind = "raise" THEN builder
        ELSE Ok(Camera_Object_fields(Camera_UID, OTP, cfg, StreamingPort,
                                     Input_Type, response))

\* the Ready property
Ready(self) == self._statuscode \in {200, 201}

\* the Statuscode and StatusMessage properties
Statuscode(self) == self._statuscode

StatusMessage(self) == self._status_message

\* Update_Path_Single_Value: updates the local config, patches the path with
\* the whole config, stores status and message
Update_Path_Single_Value(self, Key, Value, response) ==
    LET r == path_operation(response)
        status == StatusOf(r)
    IN  [self EXCEPT
            !._config = update_value(self._config, Key, Value),
            !._statuscode = status,
            !._status_message =
                IF r.kind = "return"
                THEN "MediaMTX path patched: " \o Key \o "=" \o Value
                ELSE IF r.val = "ConnectionError"
                     THEN "MediaMTX server unreachable during single-value update"
                     ELSE "Unexpected error patching single value: " \o r.val,
            !.lastExternal = ExternalStatus(response),
            !.op = "Update_Path_Single_Value",
            !.ret = Ok(status)]

\* Update_Path_List_Values: applies every update locally, patches once
Update_Path_List_Values(self, updates, response) ==
    LET r == path_operation(response)
        status == StatusOf(r)
        cfg == [k \in DOMAIN self._config |->
                    IF k \in DOMAIN updates
                    THEN updates[k] ELSE self._config[k]]
    IN  [self EXCEPT
            !._config = cfg,
            !._statuscode = status,
            !._status_message =
                IF r.kind = "return"
                THEN "MediaMTX path patched with "
                     \o ToString(Cardinality(DOMAIN updates)) \o " values"
                ELSE IF r.val = "ConnectionError"
                     THEN "MediaMTX server unreachable during multi-value update"
                     ELSE "Unexpected error patching multiple values: " \o r.val,
            !.lastExternal = ExternalStatus(response),
            !.op = "Update_Path_List_Values",
            !.ret = Ok(status)]

\* Remove_Path: deletes the path, stores the status delete_path returned
Remove_Path(self, response) ==
    LET r == path_operation(response)
        status == StatusOf(r)
    IN  [self EXCEPT
            !._statuscode = status,
            !._status_message =
                IF r.kind = "return" THEN "MediaMTX server path deleted"
                ELSE IF r.val = "ConnectionError"
                     THEN "MediaMTX server unreachable during delete"
                     ELSE "Unexpected error deleting path: " \o r.val,
            !.lastExternal = ExternalStatus(response),
            !.op = "Remove_Path",
            !.ret = Ok(status)]

\* Change_OTP: stores the OTP, then calls ChangeMetaData on the command
\* builder; the except clause turns a failure of that call into status 500
Change_OTP(self, new_otp) ==
    LET lookup == ffmpeg_getattr("ChangeMetaData") IN
    IF lookup.kind = "raise"
    THEN [self EXCEPT
            !._otp = new_otp,
            !._statuscode = 500,
            !._status_message = "Error changing OTP: " \o lookup.val,
            !.op = "Change_OTP",
            !.ret = Ok(500)]
    ELSE [self EXCEPT
            !._otp = new_otp,
            !._ffmpeg_command = [@ EXCEPT !.OTP = new_otp],
            !._statuscode = 200,
            !._status_message = "OTP changed.",
            !.op = "Change_OTP",
            !.ret = Ok(200)]

\* Alive: asks the client, stores 200 when alive and 503 otherwise
Alive(self, response) ==
    LET r == is_alive(response)
        alive == r.kind = "return" /\ r.val
    IN  [self EXCEPT
            !._statuscode = IF alive THEN 200 ELSE 503,
            !._status_message =
                IF r.kind = "return" THEN "MediaMTX server status checked"
                ELSE "Error checking server status: " \o r.val,
            !.lastExternal = ExternalStatus(response),
            !.op = "Alive",
            !.ret = Ok(alive)]

-----------------------------------------------------------------------------
(* Camera_Object as a state machine *)

CameraUIDs == {"cam-1", "cam-2", ""}

CameraOTPs == {"otp-A", "otp-B"}

\* Input_Type arguments: the four ingest types and a value outside the enum
InputTypes == IngestType \cup {4}

TakatProtocols == {"http", "https", "rtsp"}

PhysicalAddress == "rtsp://10.0.0.5:554/live"

\* keys handed to Update_Path_Single_Value ("RunOnReady" is the key the
\* session passes, "runOnReady" the attribute of the configuration)
UpdateKeys == {"source", "runOnReady", "RunOnReady"}

UpdateValues == {"v1", "v2"}

\* the dictionaries handed to Update_Path_List_Values
UpdateMaps ==
    {[k \in keys |-> "v1"] :
        keys \in {{}, {"source"}, {"source", "runOnReady"}, {"RunOnReady"}}}

\* no update handed over
NoUpdates == [k \in {} |-> ""]

\* the camera specifications leave the other components alone
OthersIdleForCamera ==
    /\ CredIdle
    /\ RegistryIdle
    /\ ThreadsIdle
    /\ ApiIdle
    /\ HttpIdle
    /\ SessionIdle
    /\ ConfigIdle

\* before any Camera_Object was constructed
InitCameraInit ==
    /\ OthersIdleForCamera
    /\ camera = [phase |-> "absent"]

\* Camera_Object(...) is called; the outcome of the add request is the
\* environment's
Do_Camera_Object_init ==
    /\ camera.phase = "absent"
    /\ \E Camera_UID \in CameraUIDs, OTP \in CameraOTPs,
          Input_Type \in InputTypes, TakatProtocol \in TakatProtocols,
          response \in FinalResults("POST") :
        camera' = [phase |-> "constructed",
                   Camera_UID |-> Camera_UID, OTP |-> OTP,
                   Input_Type |-> Input_Type,
                   TakatProtocol |-> TakatProtocol,
                   response |-> response,
                   out |-> Camera_Object(Camera_UID, OTP,
                              MediaMTX_Path_Config(Camera_UID, PhysicalAddress),
                              8554, Input_Type, TakatProtocol, response)]
    /\ UNCHANGED <<credVars, regVars, threadVars, http, session, config, apiVars>>

NextCameraInit == Do_Camera_Object_init

SpecCameraInit == InitCameraInit /\ [][NextCameraInit]_vars

\* the methods as functions of the object: self is any object the body of
\* __init__ builds once its lookups succeed
InitCamera ==
    /\ OthersIdleForCamera
    /\ \E OTP \in CameraOTPs, o \in TransportOutcomes :
        camera = Camera_Object_fields("cam-1", OTP,
                     MediaMTX_Path_Config("cam-1", PhysicalAddress),
                     8554, 0, request("POST", o))
                 @@ [wire |-> o, updates |-> NoUpdates]

\* each action records next to the object what the call was given: wire is
\* the outcome of the last attempt on the wire, updates the keys and values
\* handed to an update
Do_Add_Path ==
    /\ \E o \in TransportOutcomes :
        camera' = [Add_Path(camera, request("POST", o))
                      EXCEPT !.wire = o, !.updates = NoUpdates]
    /\ UNCHANGED <<credVars, regVars, threadVars, http, session, config, apiVars>>

Do_Update_Path_Single_Value ==
    /\ \E Key \in UpdateKeys, Value \in UpdateValues, o \in TransportOutcomes :
        camera' = [Update_Path_Single_Value(camera, Key, Value,
                                            request("PATCH", o))
                      EXCEPT !.wire = o, !.updates = [k \in {Key} |-> Value]]
    /\ UNCHANGED <<credVars, regVars, threadVars, http, session, config, apiVars>>

Do_Update_Path_List_Values ==
    /\ \E updates \in UpdateMaps, o \in TransportOutcomes :
        camera' = [Update_Path_List_Values(camera, updates,
                                           request("PATCH", o))
                      EXCEPT !.wire = o, !.updates = updates]
    /\ UNCHANGED <<credVars, regVars, threadVars, http, session, config, apiVars>>

Do_Remove_Path ==
    /\ \E o \in TransportOutcomes :
        camera' = [Remove_Path(camera, request("DELETE", o))
                      EXCEPT !.wire = o, !.updates = NoUpdates]
    /\ UNCHANGED <<credVars, regVars, threadVars, http, session, config, apiVars>>

Do_Change_OTP ==
    /\ \E new_otp \in CameraOTPs :
        camera' = [Change_OTP(camera, new_otp) EXCEPT !.updates = NoUpdates]
    /\ UNCHANGED <<credVars, regVars, threadVars, http, session, config, apiVars>>

Do_Alive ==
    /\ \E o \in TransportOutcomes :
        camera' = [Alive(camera, request("GET", o))
                      EXCEPT !.wire = o, !.updates = NoUpdates]
    /\ UNCHANGED <<credVars, regVars, threadVars, http, session, config, apiVars>>

NextCamera ==
    \/ Do_Add_Path
    \/ Do_Update_Path_Single_Value
    \/ Do_Update_Path_List_Values
    \/ Do_Remove_Path
    \/ Do_Change_OTP
    \/ Do_Alive

SpecCamera == InitCamera /\ [][NextCamera]_vars

\* C13: constructing a Camera_Object never raises: whatever the add request
\* ends in and whatever the arguments, the constructor returns an object
\* whose status code and status message can be read.
C13_ConstructionNeverThrows ==
    camera.phase = "constructed" =>
        /\ camera.out.kind = "return"
        /\ {"_statuscode", "_status_message"} \subseteq DOMAIN camera.out.val

\* C14: a Camera_Object reports Ready exactly when the status its most
\* recent external call ended with is 200 or 201.
C14_ReadyIffLastExternalStatusOk ==
    camera.phase = "object" =>
        (Ready(camera) <=> camera.lastExternal \in {200, 201})

\* C15: after Remove_Path the Camera_Object is not Ready, whatever the
\* delete request ended in.
C15_NotReadyAfterRemove ==
    (camera.phase = "object" /\ camera.op = "Remove_Path") => ~Ready(camera)

-----------------------------------------------------------------------------
(* Safe_Link (blueprints/TakatVideo_api/util.py), as far as the session     *)
(* uses it.  A port of None is modelled by 0: is_valid_port rejects both.   *)

ALLOWED_PROTOCOLS == {"http", "https"}

DEFAULT_PROTOCOL == "http"

DEFAULT_HOST == "127.0.0.1"

\* the characters of the hostname pattern ^[a-zA-Z0-9._-]+$
HostnameChars ==
    {SubSeq("abcdefghijklmnopqrstuvwxyzABCDEFGHIJKLMNOPQRSTUVWXYZ0123456789._-",
            i, i) : i \in 1..65}

\* is_safe_hostname: an IP address, or a name matching the pattern (an IPv4
\* address matches the pattern too; "::1" stands for the IPv6 addresses)
is_safe_hostname(value) ==
    \/ value = "::1"
    \/ /\ Len(value) > 0
       /\ \A i \in 1..Len(value) : SubSeq(value, i, i) \in HostnameChars

\* is_valid_protocol
is_valid_protocol(value, allowed) == value \in allowed

\* is_valid_port
is_valid_port(value) == 0 < value /\ value <= 65535

\* str.lstrip('/')
RECURSIVE lstrip_slash(_)
lstrip_slash(str) ==
    IF Len(str) > 0 /\ SubSeq(str, 1, 1) = "/"
    THEN lstrip_slash(SubSeq(str, 2, Len(str)))
    ELSE str

\* f"{port}" for a port, None being 0
PortStr(port) == IF port = 0 THEN "None" ELSE ToString(port)

\* _update_hyperlink: the Hyperlink of the four parts
Hyperlink(Protocol, Host, Port, URL) ==
    LET port_part == IF Port # 0 THEN ":" \o ToString(Port) ELSE ""
        normalized_url == IF URL # "" THEN "/" \o lstrip_slash(URL) ELSE ""
        is_ipv6 == (\E i \in 1..Len(Host) : SubSeq(Host, i, i) = ":")
                   /\ SubSeq(Host, 1, 1) # "["
        host_part == IF is_ipv6 THEN "[" \o Host \o "]" ELSE Host
    IN  Protocol \o "://" \o host_part \o port_part \o normalized_url

\* Safe_Link(protocol, host, port, path, allowed_protocols): an invalid part
\* is replaced by its default, never rejected
Safe_Link(protocol, host, port, path, allowed_protocols) ==
    LET Protocol == IF is_valid_protocol(protocol, allowed_protocols)
                    THEN protocol ELSE DEFAULT_PROTOCOL
        Host == IF is_safe_hostname(host) THEN host ELSE DEFAULT_HOST
        Port == IF is_valid_port(port) THEN port ELSE 0
    IN  [Protocol |-> Protocol, Host |-> Host, Port |-> Port, URL |-> path,
         Hyperlink |-> Hyperlink(Protocol, Host, Port, path)]

\* whether sub occurs in str
Contains(str, sub) ==
    \E i \in 1..(Len(str) - Len(sub) + 1) :
        SubSeq(str, i, i + Len(sub) - 1) = sub

\* sep.join(strs)
RECURSIVE Join(_, _)
Join(strs, sep) ==
    IF Len(strs) = 0 THEN ""
    ELSE IF Len(strs) = 1 THEN strs[1]
    ELSE strs[1] \o sep \o Join(Tail(strs), sep)

-----------------------------------------------------------------------------
(* Video_Object (blueprints/TakatVideo_api/Video_Object.py): construction   *)
(* of the two cameras, status, removal and serialisation.  Both cameras are *)
(* given the one configuration object camera_config, so every update made   *)
(* through one camera shows in the other.                                   *)

\* the camera ingest command of the command builder of a camera
RunOnReadyCommand(self, address) ==
    "ffmpeg -timeout 5000000 -re -stream_loop -1 -i \"" \o address
    \o "\" -c copy -metadata uid=\"" \o self._ffmpeg_command.UID
    \o "\" -metadata linked_device=\"" \o self._ffmpeg_command.Linked_Device
    \o "\" -metadata otp=\"" \o self._ffmpeg_command.OTP
    \o "\" -f rtsp \"rtsp://127.0.0.1:" \o PortStr(self._streamingport)
    \o "/" \o self._ffmpeg_command.UID \o "/stream\""

\* the FFMPEG_RunOnReady property of a camera: calls RunOnReady on the
\* command builder
FFMPEG_RunOnReady(self, address) ==
    LET m == ffmpeg_getattr("RunOnReady") IN
    IF m.kind = "raise" THEN m ELSE Ok(RunOnReadyCommand(self, address))

\* the source written into the virtual camera's configuration (line 825)
virtual_source(virtual_camera_address, vcuid) ==
    virtual_camera_address.Protocol \o "://127.0.0.1:"
    \o PortStr(virtual_camera_address.Port) \o "/" \o vcuid \o "/stream"

\* the body of Video_Object.__init__ for the fields it sets, given that no
\* statement of it raised.  rs holds what the seven requests of the
\* construction ended in, in the order they are made.
Video_Object_fields(id, uid, virtual_camera_uid, source_camera_uid, linked_device, drawnLen, source_camera, mediamtx_server, streaming_port, camera_config, processing_type, rs) ==
    LET ident == Video_Object(id, uid, virtual_camera_uid, source_camera_uid,
                              linked_device, drawnLen)
        otp   == ident._credentials.otp
        scuid == find_uid_by_name(ident._credentials.uids, "source_camera")[1]
        sc0   == Camera_Object_fields(scuid, otp, camera_config,
                                      streaming_port, 0, rs[1])
        sc1   == Update_Path_Single_Value(sc0, "RunOnReady",
                     RunOnReadyCommand(sc0, source_camera), rs[2])
        sc2   == Update_Path_Single_Value(sc1, "RunOnNotReady",
                     "takat api, unregister camera and remove path", rs[3])
        vcuid == find_uid_by_name(ident._credentials.uids, "virtual_camera")[1]
        vaddr == Safe_Link("rtsp", mediamtx_server.Host, streaming_port,
                           vcuid \o "/stream", ALLOWED_PROTOCOLS)
        vc0   == Camera_Object_fields(vcuid, otp, sc2._config,
                                      streaming_port, 0, rs[4])
        vc1   == Update_Path_Single_Value(vc0, "RunOnReady",
                     "takat api start injection", rs[5])
        vc2   == Update_Path_Single_Value(vc1, "RunOnNotReady",
                     "takat api, stop injection and remove path", rs[6])
        vc3   == Update_Path_Single_Value(vc2, "source",
                     virtual_source(vaddr, vcuid), rs[7])
    IN  [phase |-> "object",
         id |-> id,
         _statuscode |-> 503,
         _status_message |-> "Object "
                             \o (IF uid = PyNone THEN "None" ELSE uid)
                             \o ": Not initialized",
         _status |-> -1,    \* the attribute is not set before a status call
         _streamingport |-> streaming_port,
         _processing_type |-> processing_type,
         _source_camera_address |-> source_camera,
         _mediamtx_server_address |-> mediamtx_server,
         _linked_device |-> ident._linked_device,
         _main_Config |-> vc3._config,
         _credentials |-> ident._credentials,
         _uid |-> ident._uid,
         _otp |-> ident._otp,
         Source_Camera |-> [sc2 EXCEPT !._config = vc3._config],
         Virtual_Camera |-> vc3,
         _virtual_camera_address |-> vaddr,
         op |-> "__init__",
         ret |-> OkNone,
         twin |-> OkNone]

\* Video_Object(...) as a call: the first statement that raises ends it
Video_Object_construct(id, uid, virtual_camera_uid, source_camera_uid, linked_device, drawnLen, source_camera, mediamtx_server, TakatProtocol, streaming_port, camera_config, processing_type, rs) ==
    LET ident == Video_Object(id, uid, virtual_camera_uid, source_camera_uid,
                              linked_device, drawnLen)
        otp   == ident._credentials.otp
        scs   == find_uid_by_name(ident._credentials.uids, "source_camera")
        vcs   == find_uid_by_name(ident._credentials.uids, "virtual_camera")
        sc    == Camera_Object(scs[1], otp, camera_config, streaming_port, 0,
                               TakatProtocol, rs[1])
        cmd   == FFMPEG_RunOnReady(sc.val, source_camera)
        vc    == Camera_Object(vcs[1], otp, camera_config, streaming_port, 0,
                               TakatProtocol, rs[4])
    IN  IF Len(scs) = 0 THEN Raise("IndexError")
        ELSE IF sc.kind = "raise" THEN sc
        ELSE IF cmd.kind = "raise" THEN cmd
        ELSE IF Len(vcs) = 0 THEN Raise("IndexError")
        ELSE IF vc.kind = "raise" THEN vc
        ELSE Ok(Video_Object_fields(id, uid, virtual_camera_uid,
                    source_camera_uid, linked_device, drawnLen, source_camera,
                    mediamtx_server, streaming_port, camera_config,
                    processing_type, rs))

\* CheckCamerasStatus reporting 200 as soon as one camera is ready
CheckCamerasStatus_either(self) ==
    LET ok == Statuscode(self.Source_Camera) \in {200, 201}
              \/ Statuscode(self.Virtual_Camera) \in {200, 201}
    IN  [self EXCEPT
            !._status = IF ok THEN 200 ELSE 500,
            !._status_message = IF ok THEN "Both cameras are ready."
                                ELSE "Source camera error; Virtual camera error",
            !.op = "CheckCamerasStatus",
            !.ret = Ok(IF ok THEN 200 ELSE 500)]

\* property CheckCamerasStatus: 200 when both cameras have status 200 or
\* 201, otherwise 500 and a message per camera that has not
CheckCamerasStatus(self) ==
    LET source_status == Statuscode(self.Source_Camera)
        virtual_status == Statuscode(self.Virtual_Camera)
        ok == source_status \in {200, 201} /\ virtual_status \in {200, 201}
        messages ==
            (IF source_status \notin {200, 201}
             THEN <<"Source camera error (" \o ToString(source_status)
                    \o "): " \o StatusMessage(self.Source_Camera)>>
             ELSE <<>>)
            \o (IF virtual_status \notin {200, 201}
                THEN <<"Virtual camera error (" \o ToString(virtual_status)
                       \o "): " \o StatusMessage(self.Virtual_Camera)>>
                ELSE <<>>)
    IN  [self EXCEPT
            !._status = IF ok THEN 200 ELSE 500,
            !._status_message = IF ok THEN "Both cameras are ready."
                                ELSE Join(messages, "; "),
            !.op = "CheckCamerasStatus",
            !.ret = Ok(IF ok THEN 200 ELSE 500)]

\* RemoveAllPaths giving up after a failed first delete
RemoveAllPaths_stop_at_failure(self, response_source, response_virtual) ==
    LET source == Remove_Path(self.Source_Camera, response_source)
        virtual == IF source.ret.val # 200 THEN self.Virtual_Camera
                   ELSE Remove_Path(self.Virtual_Camera, response_virtual)
        ok == source.ret.val = 200 /\ virtual.ret.val = 200
    IN  [self EXCEPT
            !.Source_Camera = source,
            !.Virtual_Camera = virtual,
            !._status = IF ok THEN 200 ELSE 500,
            !._status_message =
                IF ok THEN "Both camera paths removed successfully."
                ELSE "Source camera removal failed",
            !.op = "RemoveAllPaths",
            !.ret = Ok(IF ok THEN 200 ELSE 500)]

\* RemoveAllPaths: removes the source path, then the virtual path; 200 when
\* both Remove_Path calls returned 200, otherwise 500 and the messages
RemoveAllPaths(self, response_source, response_virtual) ==
    LET source == Remove_Path(self.Source_Camera, response_source)
        virtual == Remove_Path(self.Virtual_Camera, response_virtual)
        source_status == source.ret.val
        virtual_status == virtual.ret.val
        ok == source_status = 200 /\ virtual_status = 200
        messages ==
            (IF source_status # 200
             THEN <<"Source camera removal failed ("
                    \o ToString(source_status) \o "): "
                    \o StatusMessage(source)>>
             ELSE <<>>)
            \o (IF virtual_status # 200
                THEN <<"Virtual camera removal failed ("
                       \o ToString(virtual_status) \o "): "
                       \o StatusMessage(virtual)>>
                ELSE <<>>)
    IN  [self EXCEPT
            !.Source_Camera = source,
            !.Virtual_Camera = virtual,
            !._status = IF ok THEN 200 ELSE 500,
            !._status_message =
                IF ok THEN "Both camera paths removed successfully."
                ELSE Join(messages, "; "),
            !.op = "RemoveAllPaths",
            !.ret = Ok(IF ok THEN 200 ELSE 500)]

\* Camera_Object.to_dict: the entries are evaluated in order, so the
\* exception of the FFMPEG_RunOnReady entry ends the call
Camera_Object_to_dict(self, address) ==
    LET cmd == FFMPEG_RunOnReady(self, address) IN
    IF cmd.kind = "raise" THEN cmd
    ELSE Ok([Camera_UID |-> self._camera_UID,
             OTP |-> self._otp,
             StreamingPort |-> self._streamingport,
             InputType |-> self._input_type,
             StatusCode |-> Statuscode(self),
             CameraAddress |-> address,
             MediaMTXPathConfiguration |-> config_to_dict(self._config),
             FFMPEG_RunOnReady |-> cmd.val,
             FFMPEG_CommandBuilder |-> self._ffmpeg_command])

\* Video_Object.to_dict: the entries are evaluated in order, "UID" first
Video_Object_to_dict(self) ==
    LET u == UID(self)
        sc == Camera_Object_to_dict(self.Source_Camera,
                                    self._source_camera_address)
        vc == Camera_Object_to_dict(self.Virtual_Camera,
                                    self._virtual_camera_address.Hyperlink)
    IN  IF u.kind = "raise" THEN u
        ELSE IF sc.kind = "raise" THEN sc
        ELSE IF vc.kind = "raise" THEN vc
        ELSE Ok([UID |-> u.val,
                 OTP |-> self._otp,
                 StreamingPort |-> self._streamingport,
                 ProcessingType |-> self._processing_type,
                 LinkedDevice |-> self._linked_device,
                 SourceCameraAddress |-> self._source_camera_address,
                 MediamtxServerAddress |-> self._mediamtx_server_address,
                 Credentials |->
                    [primary_uid |-> primary_uid(self._credentials.uids),
                     uids |-> self._credentials.uids,
                     otp |-> self._credentials.otp],
                 SourceCamera |-> sc.val,
                 VirtualCamera |-> vc.val,
                 VirtualCameraAddress |-> self._virtual_camera_address])

-----------------------------------------------------------------------------
(* Video_Object as a state machine *)

\* the Path-Management server address handed to every session
MediamtxServer == Safe_Link("http", "mtx.local", 9997, "", ALLOWED_PROTOCOLS)

StreamingPort == 8554

\* what the seven requests of a construction end in: the last request made
\* through each camera varies, the others are answered 200
ConstructionResults ==
    {<<Ok(200), Ok(200), r3, Ok(200), Ok(200), Ok(200), r7>> :
        r3 \in FinalResults("PATCH"), r7 \in FinalResults("PATCH")}

\* the session specifications leave the credential manager, the threads,
\* the client, the single camera and the single configuration alone
OthersIdleForSession ==
    /\ CredIdle
    /\ ThreadsIdle
    /\ ApiIdle
    /\ HttpIdle
    /\ CameraIdle
    /\ ConfigIdle

\* before any Video_Object was constructed
InitSessionInit ==
    /\ OthersIdleForSession
    /\ RegistryIdle
    /\ session = [phase |-> "absent"]

\* Video_Object(...) is called
Do_Video_Object_init ==
    /\ session.phase = "absent"
    /\ \E uid \in {"u1", "u2"}, virtual_camera_uid \in {PyNone, "d1"},
          source_camera_uid \in {PyNone, "s1"}, linked_device \in {PyNone, "d1"},
          drawnLen \in LengthDraws, processing_type \in InputTypes,
          rs \in ConstructionResults :
        session' = [phase |-> "constructed",
                    uid |-> uid,
                    virtual_camera_uid |-> virtual_camera_uid,
                    source_camera_uid |-> source_camera_uid,
                    linked_device |-> linked_device,
                    processing_type |-> processing_type,
                    rs |-> rs,
                    out |-> Video_Object_construct(1, uid, virtual_camera_uid,
                                source_camera_uid, linked_device, drawnLen,
                                PhysicalAddress, MediamtxServer, "https",
                                StreamingPort,
                                MediaMTX_Path_Config("main", PhysicalAddress),
                                processing_type, rs)]
    /\ UNCHANGED <<credVars, regVars, threadVars, http, camera, config, apiVars>>

NextSessionInit == Do_Video_Object_init

SpecSessionInit == InitSessionInit /\ [][NextSessionInit]_vars

\* the methods as functions of the object: self is any session the body of
\* __init__ builds once no statement of it raises, held by the registry
InitSession ==
    /\ OthersIdleForSession
    /\ reg = RegCall("load", PyNone, PyNone, PyNone, PyNone)
    /\ \E virtual_camera_uid \in {PyNone, "d1"},
          source_camera_uid \in {PyNone, "s1"},
          drawnLen \in LengthDraws, rs \in ConstructionResults :
        /\ session = Video_Object_fields(1, "u1", virtual_camera_uid,
                        source_camera_uid, PyNone, drawnLen, PhysicalAddress,
                        MediamtxServer, StreamingPort,
                        MediaMTX_Path_Config("main", PhysicalAddress), 0, rs)
        /\ VIDEO_OBJECTS = <<Video_Object(1, "u1", virtual_camera_uid,
                                source_camera_uid, PyNone, drawnLen)>>

Do_CheckCamerasStatus ==
    /\ session' = CheckCamerasStatus(session)
    /\ UNCHANGED <<credVars, regVars, threadVars, http, camera, config, apiVars>>

Do_RemoveAllPaths ==
    /\ \E response_source \in FinalResults("DELETE"),
          response_virtual \in FinalResults("DELETE") :
        session' = RemoveAllPaths(session, response_source, response_virtual)
    /\ UNCHANGED <<credVars, regVars, threadVars, http, camera, config, apiVars>>

\* the same session with another OTP everywhere the OTP is held
WithOTP(self, otp) ==
    [self EXCEPT
        !._otp = otp,
        !._credentials = [@ EXCEPT !.otp = otp],
        !.Source_Camera = [@ EXCEPT !._otp = otp,
                                    !._ffmpeg_command = [@ EXCEPT !.OTP = otp]],
        !.Virtual_Camera = [@ EXCEPT !._otp = otp,
                                     !._ffmpeg_command = [@ EXCEPT !.OTP = otp]]]

\* to_dict is called on the session and on a session differing in the OTP
Do_to_dict ==
    /\ session' = [session EXCEPT
                      !.op = "to_dict",
                      !.ret = Video_Object_to_dict(session),
                      !.twin = Video_Object_to_dict(
                                  WithOTP(session, "another-otp"))]
    /\ UNCHANGED <<credVars, regVars, threadVars, http, camera, config, apiVars>>

NextSession ==
    \/ Do_CheckCamerasStatus
    \/ Do_RemoveAllPaths
    \/ Do_to_dict

SpecSession == InitSession /\ [][NextSession]_vars

\* the UID the session registered for a role
RoleUID(self, role) == find_uid_by_name(self._credentials.uids, role)[1]

\* C16: once a session is constructed, the source of its virtual camera's
\* configuration is a relay URL whose path holds the source camera's UID, and
\* it is not the physical camera address.
C16_VirtualSourceRelaysSourceCamera ==
    (session.phase = "object" /\ session.op = "__init__") =>
        LET source == session.Virtual_Camera._config["source"] IN
        /\ Contains(source, "/" \o RoleUID(session, "source_camera") \o "/")
        /\ source # session._source_camera_address

\* C17: CheckCamerasStatus returns 200 exactly when both cameras have status
\* 200 or 201; otherwise it returns 500 and the status message names every
\* camera that is not ready.
C17_CheckStatusReadyIffBothReady ==
    (session.phase = "object" /\ session.op = "CheckCamerasStatus") =>
        LET sourceReady == Ready(session.Source_Camera)
            virtualReady == Ready(session.Virtual_Camera)
        IN  /\ session.ret.val \in {200, 500}
            /\ (session.ret.val = 200 <=> sourceReady /\ virtualReady)
            /\ (~sourceReady =>
                    Contains(session._status_message, "Source camera"))
            /\ (~virtualReady =>
                    Contains(session._status_message, "Virtual camera"))

\* the source camera is ready, the virtual one is not, and the status call
\* reported the failure
C17_Witness ==
    /\ session.phase = "object"
    /\ session.op = "CheckCamerasStatus"
    /\ Ready(session.Source_Camera)
    /\ ~Ready(session.Virtual_Camera)
    /\ session.ret.val = 500

\* C18: RemoveAllPaths sends a delete for the source path and for the virtual
\* path, also when the first delete fails; it returns 200 only if both
\* deletes ended in 200; the registry still holds the session and the
\* session's credentials are unchanged.
C18_RemoveAllPathsDeletesBoth ==
    [][(session.phase = "object" /\ session'.op = "RemoveAllPaths"
        /\ session' # session) =>
        /\ session'.Source_Camera.op = "Remove_Path"
        /\ session'.Virtual_Camera.op = "Remove_Path"
        /\ (session'.ret.val = 200 =>
                /\ session'.Source_Camera.lastExternal = 200
                /\ session'.Virtual_Camera.lastExternal = 200)
        /\ VIDEO_OBJECTS' = VIDEO_OBJECTS
        /\ \E i \in 1..Len(VIDEO_OBJECTS') :
                VIDEO_OBJECTS'[i].id = session'.id
        /\ session'._credentials = session._credentials]_vars

\* the first delete failed, the second was still sent and succeeded, and the
\* call reported failure
C18_Witness ==
    /\ session.phase = "object"
    /\ session.op = "RemoveAllPaths"
    /\ session.Source_Camera.op = "Remove_Path"
    /\ session.Source_Camera.lastExternal # 200
    /\ session.Virtual_Camera.op = "Remove_Path"
    /\ session.Virtual_Camera.lastExternal = 200
    /\ session.ret.val = 500

-----------------------------------------------------------------------------
(* MediaMTX_Path_Config as a state machine: load_from_dict, update_value    *)
(* and to_dict on one configuration                                         *)

\* load_from_dict setting every key of data, known or not
load_from_dict_setattr_all(cfg, data) ==
    [k \in DOMAIN cfg \cup DOMAIN data |->
        IF k \in DOMAIN data THEN data[k] ELSE cfg[k]]

\* load_from_dict: sets the attributes data names, skips its other keys
load_from_dict(cfg, data) ==
    [k \in DOMAIN cfg |->
        IF k \in DOMAIN data /\ config_hasattr(cfg, k)
        THEN data[k] ELSE cfg[k]]

\* keys of a dictionary that are no attribute of the configuration
UnknownKeys == {"futureKey", "RunOnReady"}

ConfigValues == {"a", "b"}

\* the dictionaries handed to load_from_dict: every attribute of the
\* configuration, and any of the unknown keys
LoadDicts ==
    UNION {[ConfigAttributes \cup U -> ConfigValues] : U \in SUBSET UnknownKeys}

NoDict == [k \in {} |-> ""]

InitConfig ==
    /\ CredIdle
    /\ RegistryIdle
    /\ ThreadsIdle
    /\ ApiIdle
    /\ HttpIdle
    /\ CameraIdle
    /\ SessionIdle
    /\ config = [phase |-> "object",
                 attrs |-> MediaMTX_Path_Config("main", PhysicalAddress),
                 op |-> "__init__", prev |-> "__init__",
                 d |-> NoDict, out |-> NoDict]

Do_load_from_dict ==
    /\ config.phase = "object"
    /\ \E data \in LoadDicts :
        config' = [config EXCEPT
                      !.attrs = load_from_dict(config.attrs, data),
                      !.prev = config.op,
                      !.op = "load_from_dict",
                      !.d = data,
                      !.out = NoDict]
    /\ UNCHANGED <<credVars, regVars, threadVars, http, camera, session, apiVars>>

Do_update_value ==
    /\ config.phase = "object"
    /\ \E key \in UpdateKeys, value \in ConfigValues :
        config' = [config EXCEPT
                      !.attrs = update_value(config.attrs, key, value),
                      !.prev = config.op,
                      !.op = "update_value",
                      !.d = NoDict,
                      !.out = NoDict]
    /\ UNCHANGED <<credVars, regVars, threadVars, http, camera, session, apiVars>>

Do_config_to_dict ==
    /\ config.phase = "object"
    /\ config.op # "to_dict"
    /\ config' = [config EXCEPT
                      !.prev = config.op,
                      !.op = "to_dict",
                      !.out = config_to_dict(config.attrs)]
    /\ UNCHANGED <<credVars, regVars, threadVars, http, camera, session, apiVars>>

NextConfig ==
    \/ Do_load_from_dict
    \/ Do_update_value
    \/ Do_config_to_dict

SpecConfig == InitConfig /\ [][NextConfig]_vars

\* to_dict was called right after load_from_dict(d)
ExportedAfterLoad ==
    /\ config.phase = "object"
    /\ config.op = "to_dict"
    /\ config.prev = "load_from_dict"

-----------------------------------------------------------------------------
(* Safe_Link as an object of its own (blueprints/TakatVideo_api/util.py):   *)
(* construction and Update.  A port argument carries its Python type: the   *)
(* callers pass None, an int, or (Takat_Video_API.py lines 196-197) a str.  *)

NoPort == [type |-> "NoneType", value |-> 0]

IntPort(n) == [type |-> "int", value |-> n]

StrPort(n) == [type |-> "str", value |-> n]

\* is_valid_port on an argument of any of the three types: None is refused,
\* an int is compared, and 0 < value raises TypeError for a str
is_valid_port_typed(port) ==
    IF port.type = "NoneType" THEN Ok(FALSE)
    ELSE IF port.type = "str" THEN Raise("TypeError")
    ELSE Ok(is_valid_port(port.value))

\* allowed_protocols or self.ALLOWED_PROTOCOLS; {} stands for None and []
AllowedOr(allowed_protocols, default) ==
    IF allowed_protocols = {} THEN default ELSE allowed_protocols

\* Safe_Link.__init__: the object, or the exception that leaves it
Safe_Link_init(protocol, host, port, path, allowed_protocols) ==
    LET allowed == AllowedOr(allowed_protocols, ALLOWED_PROTOCOLS)
        port_ok == is_valid_port_typed(port)
    IN  IF port_ok.kind = "raise" THEN port_ok
        ELSE Ok(Safe_Link(protocol, host, port.value, path, allowed)
                @@ [allowed_protocols |-> allowed])

\* Update that assigns the new fields and leaves the Hyperlink as it was
Update_keep_hyperlink(self, protocol, host, port, url, allowed_protocols) ==
    LET allowed == AllowedOr(allowed_protocols, self.allowed_protocols)
        new_protocol == IF protocol # PyNone /\ is_valid_protocol(protocol, allowed)
                        THEN protocol ELSE self.Protocol
        new_host == IF host # PyNone /\ is_safe_hostname(host)
                    THEN host ELSE self.Host
        port_ok == is_valid_port_typed(port)
        new_port == IF port_ok.val THEN port.value ELSE self.Port
        new_url == IF url # PyNone THEN url ELSE self.URL
    IN  IF port_ok.kind = "raise" THEN [self |-> self, ret |-> port_ok]
        ELSE [self |-> [self EXCEPT !.Protocol = new_protocol,
                                    !.Host = new_host, !.Port = new_port,
                                    !.URL = new_url],
              ret |-> OkNone]

\* Safe_Link.Update: every given and valid part replaces the current one;
\* when anything changed the four fields are committed and the Hyperlink is
\* recomputed.  A str port raises before anything is assigned.
Update(self, protocol, host, port, url, allowed_protocols) ==
    LET allowed == AllowedOr(allowed_protocols, self.allowed_protocols)
        new_protocol == IF protocol # PyNone /\ is_valid_protocol(protocol, allowed)
                        THEN protocol ELSE self.Protocol
        new_host == IF host # PyNone /\ is_safe_hostname(host)
                    THEN host ELSE self.Host
        port_ok == is_valid_port_typed(port)
        new_port == IF port_ok.val THEN port.value ELSE self.Port
        new_url == IF url # PyNone THEN url ELSE self.URL
        changed == \/ new_protocol # self.Protocol \/ new_host # self.Host
                   \/ new_port # self.Port \/ new_url # self.URL
    IN  IF port_ok.kind = "raise" THEN [self |-> self, ret |-> port_ok]
        ELSE IF changed
        THEN [self |-> [self EXCEPT !.Protocol = new_protocol,
                                    !.Host = new_host, !.Port = new_port,
                                    !.URL = new_url,
                                    !.Hyperlink = Hyperlink(new_protocol,
                                                 new_host, new_port, new_url)],
              ret |-> OkNone]
        ELSE [self |-> self, ret |-> OkNone]

\* the arguments the callers pass
LinkProtocols == {"http", "rtsp", "ftp"}

LinkHosts == {"esp32-cam.net", "::1", "bad host!"}

LinkPorts == {NoPort, IntPort(80), IntPort(70000), StrPort(8443)}

LinkPaths == {"", "mjpeg", "/live"}

LinkAllowed == {{}, {"http", "https", "rtsp"}, {"rtsp"}}

\* the link specification leaves the other components alone
OthersIdleForLink ==
    /\ CredIdle
    /\ RegistryIdle
    /\ ThreadsIdle
    /\ MediaIdle
    /\ SetupIdle
    /\ BuilderIdle

\* before any Safe_Link was constructed
InitLink ==
    /\ OthersIdleForLink
    /\ link = [phase |-> "absent"]

\* Safe_Link(protocol, host, port, path, allowed_protocols) is called
Do_Safe_Link_init ==
    /\ link.phase = "absent"
    /\ \E protocol \in LinkProtocols, host \in LinkHosts, port \in LinkPorts,
          path \in LinkPaths, allowed_protocols \in LinkAllowed :
        LET r == Safe_Link_init(protocol, host, port, path, allowed_protocols)
            args == [protocol |-> protocol, host |-> host, port |-> port,
                     path |-> path]
        IN  link' = IF r.kind = "raise"
                    THEN [phase |-> "failed", op |-> "__init__",
                          args |-> args, ret |-> r]
                    ELSE [phase |-> "live", op |-> "__init__", args |-> args,
                          ret |-> OkNone, self |-> r.val, rewritten |-> TRUE]
    /\ UNCHANGED <<credVars, regVars, threadVars, mediaVars, server, ffmpeg>>

\* link.Update(protocol, host, port, url, allowed_protocols) is called
Do_Update ==
    /\ link.phase = "live"
    /\ \E protocol \in LinkProtocols \cup {PyNone},
          host \in LinkHosts \cup {PyNone}, port \in LinkPorts,
          url \in LinkPaths \cup {PyNone}, allowed_protocols \in LinkAllowed :
        LET r == Update(link.self, protocol, host, port, url, allowed_protocols)
        IN  link' = [phase |-> "live", op |-> "Update",
                     args |-> [host |-> host],
                     ret |-> r.ret, self |-> r.self,
                     rewritten |-> r.self.Hyperlink # link.self.Hyperlink]
    /\ UNCHANGED <<credVars, regVars, threadVars, mediaVars, server, ffmpeg>>

NextLink == Do_Safe_Link_init \/ Do_Update

SpecLink == InitLink /\ [][NextLink]_vars

\* protocol://host[:port][/path] of four values, written out from the
\* sentence: the port part only when a port is held, the path part only
\* for a non-empty path and with one slash, an IPv6 host in brackets
Rendering(protocol, host, port, path) ==
    LET h == IF Contains(host, ":") THEN "[" \o host \o "]" ELSE host
        withPort == IF port = 0 THEN "" ELSE ":" \o ToString(port)
        withPath == IF path = "" THEN ""
                    ELSE IF SubSeq(path, 1, 1) = "/" THEN path
                    ELSE "/" \o path
    IN  protocol \o "://" \o h \o withPort \o withPath

\* C21: in every state after construction and any sequence of Update calls,
\* the derived URL of an Endpoint Address is the rendering
\* protocol://host[:port][/path] of the protocol, host, port and path it
\* holds now; it is never the rendering of earlier values.
C21_HyperlinkNeverStale ==
    link.phase = "live" =>
        link.self.Hyperlink = Rendering(link.self.Protocol, link.self.Host,
                                        link.self.Port, link.self.URL)

\* an Update call that changed the address, so that the URL had to change
C21_Witness ==
    /\ link.phase = "live"
    /\ link.op = "Update"
    /\ link.ret.kind = "return"
    /\ link.rewritten
    /\ link.args.host # PyNone
    /\ link.self.Host = link.args.host

\* C22: constructing an Endpoint Address never fails: for every protocol,
\* host and port, a port given as a string included, construction completes,
\* and a disallowed protocol, an unsafe host and an out-of-range port are
\* replaced by http, 127.0.0.1 and no port.
C22_ConstructionNeverFails ==
    link.phase \in {"live", "failed"} /\ link.op = "__init__" =>
        /\ link.phase = "live"
        /\ link.self.Protocol \in link.self.allowed_protocols
                                      \cup {DEFAULT_PROTOCOL}
        /\ link.args.protocol \notin link.self.allowed_protocols
                => link.self.Protocol = DEFAULT_PROTOCOL
        /\ link.args.host = "bad host!" => link.self.Host = DEFAULT_HOST
        /\ link.args.port.type = "int"
           /\ ~(0 < link.args.port.value /\ link.args.port.value <= 65535)
                => link.self.Port = 0

-----------------------------------------------------------------------------
(* ServerSetup (TakatVideo_api/Takat_Video_API.py): the module's globals    *)
(* and the /ServerSetup handler.                                            *)

\* the globals as the module is loaded (lines 22-34 and 40)
TakatGlobals ==
    [TAKAT_mediamtx_protocol |-> "http",
     TAKAT_mediamtx_ip |-> "127.0.0.1",
     TAKAT_mediamtx_api_port |-> 9997,
     TAKAT_mediamtx_streaming_port |-> 8554,
     TAKAT_mediamtx_token |-> "",
     TAKAT_tak_server_protocol |-> "http",
     TAKAT_tak_server_ip |-> "127.0.0.1",
     TAKAT_tak_server_api_port |-> 8443,
     TAKAT_tak_server_token |-> "",
     TAKAT_tak_server_Free |-> FALSE,
     TAKAT_commercial_text_overlay |-> "TAKAT.NL - %Y-%m-%d %H:%M:%S - TAKAT.NL",
     Setup_Lock |-> FALSE]

\* the keys whose values are numbers and booleans; the others are strings
PortKeys ==
    {"mediamtx_api_port", "TAKAT_mediamtx_streaming_port",
     "mediamtx_streaming_port", "tak_server_api_port"}

FlagKeys == {"free_tak_server", "self_locking"}

\* if data.get(key): the key is there and its value is not falsy
Truthy(data, key) ==
    /\ key \in DOMAIN data
    /\ IF key \in PortKeys THEN data[key] # 0
       ELSE IF key \in FlagKeys THEN data[key]
       ELSE data[key] # ""

\* if data.get(key): <global> = data[key], for the pairs in the order given
RECURSIVE AssignAll(_, _, _)
AssignAll(g, data, pairs) ==
    IF pairs = <<>> THEN g
    ELSE LET key == pairs[1][1]
             global == pairs[1][2]
         IN  AssignAll(IF Truthy(data, key)
                       THEN [g EXCEPT ![global] = data[key]] ELSE g,
                       data, Tail(pairs))

\* lines 101-110: the assignments before the streaming port
AssignmentsBefore ==
    << <<"commercial_text_overlay", "TAKAT_commercial_text_overlay">>,
       <<"free_tak_server", "TAKAT_tak_server_Free">>,
       <<"mediamtx_protocol", "TAKAT_mediamtx_protocol">>,
       <<"mediamtx_ip", "TAKAT_mediamtx_ip">>,
       <<"mediamtx_api_port", "TAKAT_mediamtx_api_port">> >>

\* lines 113-122: the assignments after the streaming port
AssignmentsAfter ==
    << <<"mediamtx_token", "TAKAT_mediamtx_token">>,
       <<"tak_server_protocol", "TAKAT_tak_server_protocol">>,
       <<"tak_server_ip", "TAKAT_tak_server_ip">>,
       <<"tak_server_api_port", "TAKAT_tak_server_api_port">>,
       <<"tak_server_token", "TAKAT_tak_server_token">> >>

\* request.get_json() and the two data.get calls that precede the lock
\* test: a body that is no JSON is refused by Flask (400, or 415 for a
\* missing JSON content type), and data.get on a JSON value that is no
\* object raises AttributeError outside the try block (500)
RequestRefused(req) ==
    IF req.body = "malformed" THEN 400
    ELSE IF req.body = "not-json" THEN 415
    ELSE IF req.body = "array" THEN 500
    ELSE 0

\* a handler without the test of Setup_Lock: every request is applied
ServerSetup_no_lock(g, req) ==
    IF RequestRefused(req) # 0
    THEN [globals |-> g, status |-> RequestRefused(req)]
    ELSE LET g3 == AssignAll(AssignAll(g, req.data, AssignmentsBefore),
                             req.data, AssignmentsAfter)
         IN  [globals |-> [g3 EXCEPT !.Setup_Lock = TRUE], status |-> 200]

\* ServerSetup: the globals after the request and the status answered
ServerSetup(g, req) ==
    IF RequestRefused(req) # 0
    THEN [globals |-> g, status |-> RequestRefused(req)]
    ELSE
    LET data == req.data
        self_locking == IF "self_locking" \in DOMAIN data
                        THEN data["self_locking"] ELSE TRUE
        g1 == AssignAll(g, data, AssignmentsBefore)
        \* line 111 tests one key and line 112 reads another
        KeyError == /\ Truthy(data, "TAKAT_mediamtx_streaming_port")
                    /\ "mediamtx_streaming_port" \notin DOMAIN data
        g2 == IF Truthy(data, "TAKAT_mediamtx_streaming_port")
              THEN [g1 EXCEPT !.TAKAT_mediamtx_streaming_port =
                                   data["mediamtx_streaming_port"]]
              ELSE g1
        g3 == AssignAll(g2, data, AssignmentsAfter)
        g4 == IF self_locking = TRUE THEN [g3 EXCEPT !.Setup_Lock = TRUE]
              ELSE g3
    IN  IF g.Setup_Lock = FALSE
        THEN IF KeyError THEN [globals |-> g1, status |-> 400]
             ELSE [globals |-> g4, status |-> 200]
        ELSE [globals |-> g, status |-> 403]

\* the values a request may carry for a key; "" and 0 are falsy
SetupValues ==
    [mediamtx_ip |-> {"10.0.0.7"},
     mediamtx_api_port |-> {9998},
     mediamtx_token |-> {"", "s3cret"},
     free_tak_server |-> {TRUE},
     tak_server_ip |-> {"ots.takat.nl"},
     TAKAT_mediamtx_streaming_port |-> {8555},
     mediamtx_streaming_port |-> {8556},
     self_locking |-> {TRUE, FALSE}]

\* the JSON objects over a set of keys: each key absent or with one of its
\* values
RECURSIVE DataOver(_)
DataOver(keys) ==
    IF keys = {} THEN {<<>>}
    ELSE LET k == CHOOSE x \in keys : TRUE
             rest == DataOver(keys \ {k})
         IN  rest \cup {d @@ (k :> v) : d \in rest, v \in SetupValues[k]}

SetupData == DataOver(DOMAIN SetupValues)

\* the requests: a JSON object, or a body that is none
SetupRequests ==
    {[body |-> "object", data |-> d] : d \in SetupData}
    \cup {[body |-> b, data |-> <<>>] : b \in {"malformed", "not-json", "array"}}

\* the API specification leaves the other components alone
OthersIdleForSetup ==
    /\ CredIdle
    /\ RegistryIdle
    /\ ThreadsIdle
    /\ MediaIdle
    /\ LinkIdle
    /\ BuilderIdle

\* the module as loaded, no request served yet
InitSetup ==
    /\ OthersIdleForSetup
    /\ server = [phase |-> "loaded", globals |-> TakatGlobals, status |-> 0,
                 body |-> "", before |-> TakatGlobals]

\* POST /ServerSetup
Do_ServerSetup ==
    /\ server.phase \in {"loaded", "answered"}
    /\ \E req \in SetupRequests :
        LET r == ServerSetup(server.globals, req) IN
        server' = [phase |-> "answered", globals |-> r.globals,
                   status |-> r.status, body |-> req.body,
                   before |-> server.globals]
    /\ UNCHANGED <<credVars, regVars, threadVars, mediaVars, link, ffmpeg>>

NextSetup == Do_ServerSetup

SpecSetup == InitSetup /\ [][NextSetup]_vars

\* C23 as stated: once the setup lock is set, every later ServerSetup
\* request is answered with 403 and leaves every configuration value and
\* the lock unchanged.
C23_Original ==
    [][server.globals.Setup_Lock =>
          /\ server'.status = 403
          /\ server'.globals = server.globals]_vars

\* C23: once the setup lock is set, every later ServerSetup request leaves
\* every configuration value and the lock unchanged, and is answered with
\* 403 whenever it carries a JSON object.
C23_LockedSetupChangesNothing ==
    [][server.globals.Setup_Lock =>
          /\ server'.globals = server.globals
          /\ server'.body = "object" => server'.status = 403]_vars

\* a request with a JSON object arrived while the lock was set
C23_Witness ==
    /\ server.phase = "answered"
    /\ server.before.Setup_Lock
    /\ server.body = "object"
    /\ server.status = 403

-----------------------------------------------------------------------------
(* Video_Object.__init__ statement by statement (lines 777-825): the        *)
(* credentials, then the seven statements that make a request to the        *)
(* Path-Management server.  As in Video_Object_fields the builder lookups   *)
(* of the cameras are taken to succeed, so that the body runs to its end.   *)

\* the source camera as line 792 builds it, before any hook is patched
SourceCameraOf(s) ==
    Camera_Object_fields(s.scuid, s._otp, s._main_Config, s._streamingport, 0,
                         Ok(200))

\* lines 807-809: the address of the virtual camera
virtual_camera_address(mediamtx_server, streaming_port, vcuid) ==
    Safe_Link("rtsp", mediamtx_server.Host, streaming_port,
              vcuid \o "/stream", ALLOWED_PROTOCOLS)

\* the statements of the body that reach the server, in program order: the
\* camera they act on, the request they make, and for a patch the key and
\* value handed to Update_Path_Single_Value
ConstructionStatements(s) ==
    << [line |-> 792, camera |-> "source", request |-> "POST",
        key |-> "", value |-> ""],
       [line |-> 800, camera |-> "source", request |-> "PATCH",
        key |-> "RunOnReady",
        value |-> RunOnReadyCommand(SourceCameraOf(s), s._source_camera_address)],
       [line |-> 802, camera |-> "source", request |-> "PATCH",
        key |-> "RunOnNotReady",
        value |-> "takat api, unregister camera and remove path"],
       [line |-> 810, camera |-> "virtual", request |-> "POST",
        key |-> "", value |-> ""],
       [line |-> 819, camera |-> "virtual", request |-> "PATCH",
        key |-> "RunOnReady", value |-> "takat api start injection"],
       [line |-> 821, camera |-> "virtual", request |-> "PATCH",
        key |-> "RunOnNotReady",
        value |-> "takat api, stop injection and remove path"],
       [line |-> 825, camera |-> "virtual", request |-> "PATCH",
        key |-> "source",
        value |-> virtual_source(
                      virtual_camera_address(s._mediamtx_server_address,
                                             s._streamingport, s.vcuid),
                      s.vcuid)] >>

\* lines 748-788: the fields set before the first camera is built
ConstructionStart(id, uid, virtual_camera_uid, source_camera_uid, linked_device, drawnLen, source_camera, mediamtx_server, streaming_port, camera_config) ==
    LET ident == Video_Object(id, uid, virtual_camera_uid, source_camera_uid,
                              linked_device, drawnLen)
    IN  [phase |-> "constructing",
         pc |-> 1,
         _streamingport |-> streaming_port,
         _source_camera_address |-> source_camera,
         _mediamtx_server_address |-> mediamtx_server,
         _main_Config |-> camera_config,
         _credentials |-> ident._credentials,
         _otp |-> ident._otp,
         scuid |-> find_uid_by_name(ident._credentials.uids, "source_camera")[1],
         vcuid |-> find_uid_by_name(ident._credentials.uids, "virtual_camera")[1],
         _virtual_camera_address |-> <<>>,
         statuscode |-> [source |-> 0, virtual |-> 0],
         calls |-> <<>>]

\* the next statement of the body runs: a camera is built (its Add_Path) or
\* a key is patched (the shared configuration is updated, then sent whole)
ConstructionStep(s, response) ==
    LET stmt == ConstructionStatements(s)[s.pc]
        cfg == IF stmt.request = "PATCH"
               THEN update_value(s._main_Config, stmt.key, stmt.value)
               ELSE s._main_Config
        status == StatusOf(path_operation(response))
    IN  [s EXCEPT
            !.pc = s.pc + 1,
            !.phase = IF s.pc = 7 THEN "constructed" ELSE "constructing",
            !._main_Config = cfg,
            !._virtual_camera_address =
                IF stmt.line = 810
                THEN <<virtual_camera_address(s._mediamtx_server_address,
                                              s._streamingport, s.vcuid)>>
                ELSE @,
            !.statuscode = [@ EXCEPT ![stmt.camera] = status],
            !.calls = Append(@, [camera |-> stmt.camera,
                                 request |-> stmt.request,
                                 key |-> stmt.key, value |-> stmt.value,
                                 body |-> config_to_dict(cfg)])]

\* the Path-Management server addresses a session may be given
MediamtxServers ==
    {MediamtxServer,
     Safe_Link("https", "media.takat.nl", 9997, "", ALLOWED_PROTOCOLS)}

InitConstruct ==
    /\ OthersIdleForSession
    /\ RegistryIdle
    /\ session = [phase |-> "absent"]

\* Video_Object(...) is called: the credentials are created and the UIDs of
\* the two cameras registered
Do_construct_credentials ==
    /\ session.phase = "absent"
    /\ \E virtual_camera_uid \in {PyNone, "d1"},
          source_camera_uid \in {PyNone, "s1"}, linked_device \in {PyNone, "d1"},
          drawnLen \in LengthDraws, mediamtx_server \in MediamtxServers :
        session' = ConstructionStart(1, "u1", virtual_camera_uid,
                       source_camera_uid, linked_device, drawnLen,
                       PhysicalAddress, mediamtx_server, StreamingPort,
                       MediaMTX_Path_Config("main", PhysicalAddress))
    /\ UNCHANGED <<credVars, regVars, threadVars, http, camera, config, apiVars>>

\* the next statement that reaches the server runs
Do_construct_statement ==
    /\ session.phase = "constructing"
    /\ \E response \in FinalResults(ConstructionStatements(session)[session.pc].request) :
        session' = ConstructionStep(session, response)
    /\ UNCHANGED <<credVars, regVars, threadVars, http, camera, config, apiVars>>

NextConstruct == Do_construct_credentials \/ Do_construct_statement

SpecConstruct == InitConstruct /\ [][NextConstruct]_vars

\* the calls made so far on a camera that patch one of the two hooks
HookPatch(c) == c.request = "PATCH" /\ c.key \in {"RunOnReady", "RunOnNotReady"}

\* C24: Video Session construction issues its external calls in the
\* specified order: the credentials are registered before any call, every
\* call on the source camera (add, then hook patches) precedes every call on
\* the virtual camera, and on the virtual camera the add is followed by the
\* patch of source and only then by the patches of the two hooks.
C24_CallsInSpecifiedOrder ==
    session.phase \in {"constructing", "constructed"} =>
        LET calls == session.calls IN
        /\ Len(session._credentials.uids) >= 3
        /\ \A i, j \in 1..Len(calls) :
            /\ calls[i].camera = "source" /\ calls[j].camera = "virtual" => i < j
            /\ calls[i].camera = calls[j].camera /\ calls[i].request = "POST"
               /\ calls[j].request = "PATCH" => i < j
        /\ \A j \in 1..Len(calls) :
            calls[j].camera = "virtual" /\ HookPatch(calls[j]) =>
                \E i \in 1..(j - 1) : /\ calls[i].camera = "virtual"
                                      /\ calls[i].request = "PATCH"
                                      /\ calls[i].key = "source"

\* C25: once the construction has patched the hooks of the source camera,
\* the source camera's configuration has its run-on-ready hook equal to the
\* synthesized ingestion command for the physical feed and its
\* run-on-not-ready hook equal to the deregistration directive, and these
\* are the values the two patches sent to the server.
C25_SourceHooksPatched ==
    session.phase \in {"constructing", "constructed"} /\ session.pc >= 4 =>
        LET command == RunOnReadyCommand(SourceCameraOf(session),
                                         session._source_camera_address)
            directive == "takat api, unregister camera and remove path"
        IN  /\ session.calls[2].body.runOnReady = command
            /\ session.calls[3].body.runOnReady = command
            /\ session.calls[3].body.runOnNotReady = directive
            /\ session.pc = 4 =>
                  /\ session._main_Config.runOnReady = command
                  /\ session._main_Config.runOnNotReady = directive

\* C26: the virtual camera's address computed during construction has the
\* protocol and host of the external media server, the session's streaming
\* port as its port, and the path <virtual-uid>/stream.
C26_VirtualAddressFromMediaServer ==
    session.phase \in {"constructing", "constructed"}
    /\ session._virtual_camera_address # <<>> =>
        LET address == session._virtual_camera_address[1] IN
        /\ address.Protocol = session._mediamtx_server_address.Protocol
        /\ address.Host = session._mediamtx_server_address.Host
        /\ address.Port = session._streamingport
        /\ address.URL = session.vcuid \o "/stream"

-----------------------------------------------------------------------------
(* Camera_Object: what its operations report for the outcomes of a request  *)

\* the operations of a camera that add, patch or delete its path
PathOperations ==
    {"Add_Path", "Update_Path_Single_Value", "Update_Path_List_Values",
     "Remove_Path"}

\* the server answered the last request of the call, with a non-2xx status
AnsweredNon2xx(self) ==
    /\ self.wire.kind = "response"
    /\ ~(200 <= self.wire.status /\ self.wire.status <= 299)

\* C27: when the external server answers a Camera_Object operation (add,
\* patch, delete) with a non-2xx status s, a 502, 503 or 504 that lasts
\* through all retries included, the operation returns s and stores s as
\* the status code of the object.
C27_Non2xxSurfacedVerbatim ==
    camera.phase = "object" /\ camera.op \in PathOperations
    /\ AnsweredNon2xx(camera) =>
        /\ camera.ret = Ok(camera.wire.status)
        /\ Statuscode(camera) = camera.wire.status

\* C28: a connection failure of the transport during a Camera_Object
\* operation (add, update, remove) is reported as 503, and whenever the
\* server gave no answer the status the object stores and returns is 503 or
\* 500, no other locally made value.
C28_TransportFailureIs503 ==
    camera.phase = "object" /\ camera.op \in PathOperations
    /\ camera.wire.kind # "response" =>
        /\ camera.wire.kind = "connect_error" =>
              camera.ret = Ok(503) /\ Statuscode(camera) = 503
        /\ Statuscode(camera) \in {503, 500}
        /\ camera.ret.val \in {503, 500}

\* a status message that reports a failure: one of the messages of the
\* except clauses of the update operations
ReportsFailure(message) ==
    Contains(message, "unreachable") \/ Contains(message, "error")

\* C29: Update_Path_Single_Value and Update_Path_List_Values set the keys in
\* the local configuration before they patch; when the patch fails on the
\* transport the configuration keeps the new values, the object is not
\* Ready and its status message reports the failure.
C29_FailedPatchKeepsLocalAndReports ==
    camera.phase = "object"
    /\ camera.op \in {"Update_Path_Single_Value", "Update_Path_List_Values"}
    /\ camera.wire.kind # "response" =>
        /\ \A k \in DOMAIN camera.updates \cap DOMAIN camera._config :
              camera._config[k] = camera.updates[k]
        /\ ~Ready(camera)
        /\ ReportsFailure(StatusMessage(camera))

-----------------------------------------------------------------------------
(* FFMPEG_Command_Builder as an object of its own.  The repository holds    *)
(* two versions of the class: blueprints/TakatVideo_api/Video_Object.py     *)
(* (metadata_template is a property, update_metadata, run_on_ready) and     *)
(* TakatVideo_api/Video_Object.py (metadata_template is a stored string,    *)
(* ChangeTimeout, RunOnReady).  A timeout, uid or otp that is not given is  *)
(* 0 or "".                                                                 *)

\* the ingest types by name
CAMERA == 0

NETWORKED_MP4 == 1

LOCAL_MP4 == 2

YOLO == 3

\* f"{source.Root}": Root is a method of Safe_Link and is not called, so the
\* text is the repr of the bound method, not the root URL
RootRepr == "<bound method Safe_Link.Root of <Safe_Link object>>"

\* a command text that puts the metadata pairs before the input path
IngestCommand_reordered(timeout, input_path, metadata, port, uid) ==
    "ffmpeg -timeout " \o ToString(timeout)
    \o " " \o metadata
    \o " -re -stream_loop -1 -i \"" \o input_path
    \o "\" -c copy -f rtsp \"rtsp://127.0.0.1:" \o ToString(port)
    \o "/" \o uid \o "/stream\""

\* the command text of both versions of _ingest
IngestCommand(timeout, input_path, metadata, port, uid) ==
    "ffmpeg -timeout " \o ToString(timeout)
    \o " -re -stream_loop -1 -i \"" \o input_path
    \o "\" -c copy " \o metadata
    \o " -f rtsp \"rtsp://127.0.0.1:" \o ToString(port)
    \o "/" \o uid \o "/stream\""

\* the metadata text of UID, Linked_Device and OTP
MetadataText(uid, linked_device, otp) ==
    "-metadata uid=\"" \o uid \o "\" -metadata linked_device=\""
    \o linked_device \o "\" -metadata otp=\"" \o otp \o "\""

\* blueprints: FFMPEG_Command_Builder.__init__
FFMPEG_Command_Builder_init(uid, linked_device, otp, timeout, input_type) ==
    [phase |-> "object", module |-> "blueprints",
     UID |-> uid, Linked_Device |-> linked_device, OTP |-> otp,
     timeout |-> timeout, _input_type |-> input_type, _last_type |-> -1]

\* blueprints: property metadata_template, computed from the fields on
\* every read
metadata_template(self) == MetadataText(self.UID, self.Linked_Device, self.OTP)

\* blueprints: update_metadata
update_metadata(self, timeout, uid, otp) ==
    [self EXCEPT !.timeout = IF timeout # 0 /\ timeout > 0 THEN timeout ELSE @,
                 !.UID = IF uid # "" THEN uid ELSE @,
                 !.OTP = IF otp # "" THEN otp ELSE @]

\* _ingest without the YOLO branch: the type falls through to the command
\* with an empty input path
_ingest_yolo_command(self, type_, source, port) ==
    LET input_path == CASE type_ = CAMERA -> source.Hyperlink
                        [] type_ = NETWORKED_MP4 -> RootRepr \o source.URL
                        [] type_ = LOCAL_MP4 -> source.URL
                        [] OTHER -> ""
    IN  [self |-> [self EXCEPT !._last_type = type_],
         ret |-> IF type_ \notin IngestType THEN Raise("ValueError")
                 ELSE Ok(IngestCommand(self.timeout, input_path,
                                       metadata_template(self), port,
                                       self.UID))]

\* blueprints: _ingest; the command, or the exception for YOLO and for a
\* value outside the enum
_ingest(self, type_, source, port) ==
    LET input_path == CASE type_ = CAMERA -> source.Hyperlink
                        [] type_ = NETWORKED_MP4 -> RootRepr \o source.URL
                        [] type_ = LOCAL_MP4 -> source.URL
                        [] OTHER -> ""
    IN  [self |-> [self EXCEPT !._last_type = type_],
         ret |-> IF type_ = YOLO THEN Raise("NotImplementedError")
                 ELSE IF type_ \notin IngestType THEN Raise("ValueError")
                 ELSE Ok(IngestCommand(self.timeout, input_path,
                                       metadata_template(self), port,
                                       self.UID))]

\* blueprints: run_on_ready; input_type or self._input_type takes the
\* builder's own type for None (-1) and for CAMERA, which is 0
run_on_ready(self, source, input_type, port) ==
    _ingest(self, IF input_type \in {-1, 0} THEN self._input_type
                  ELSE input_type,
            source, port)

\* TakatVideo_api: FFMPEG_Command_Builder.__init__
FFMPEG_Command_Builder_legacy(uid, linked_device, otp, timeout) ==
    [phase |-> "object", module |-> "TakatVideo_api",
     UID |-> uid, Linked_Device |-> linked_device, OTP |-> otp,
     timeout |-> timeout,
     metadata_template |-> MetadataText(uid, linked_device, otp)]

\* ChangeTimeout that leaves the stored metadata_template as it was
ChangeTimeout_keep_template(self, timeout, uid, otp) ==
    [self EXCEPT !.timeout = IF timeout > 0 THEN timeout ELSE @,
                 !.UID = IF uid # "" THEN uid ELSE @,
                 !.OTP = IF otp # "" THEN otp ELSE @]

\* TakatVideo_api: ChangeTimeout sets the fields given and rebuilds the
\* stored metadata_template
ChangeTimeout(self, timeout, uid, otp) ==
    LET new_uid == IF uid # "" THEN uid ELSE self.UID
        new_otp == IF otp # "" THEN otp ELSE self.OTP
    IN  [self EXCEPT !.timeout = IF timeout > 0 THEN timeout ELSE @,
                     !.UID = new_uid,
                     !.OTP = new_otp,
                     !.metadata_template =
                         MetadataText(new_uid, self.Linked_Device, new_otp)]

\* TakatVideo_api: _enum
_enum(input_type) == IF input_type \notin {0, 1, 2, 3} THEN 0 ELSE input_type

\* TakatVideo_api: RunOnReady and _ingest; YOLO gives an echo command
RunOnReady(self, type_int, Source, MediaMTX_Streaming_Port) ==
    LET t == _enum(type_int)
        input_path == CASE t = 0 -> Source.Hyperlink
                        [] t = 1 -> RootRepr \o Source.URL
                        [] t = 2 -> Source.URL
                        [] OTHER -> ""
    IN  [self |-> self,
         ret |-> IF t = 3 THEN Ok("echo 'YOLO ingestion not yet implemented'")
                 ELSE Ok(IngestCommand(self.timeout, input_path,
                                       self.metadata_template,
                                       MediaMTX_Streaming_Port, self.UID))]

\* arguments
BuilderUIDs == {"cam-1", "cam-2"}

BuilderOTPs == {"otp-A", "otp-B"}

BuilderTimeouts == {5000000, 3000000}

BuilderSources ==
    {Safe_Link("rtsp", "10.0.0.5", 554, "live.mp4",
               {"http", "https", "rtsp"}),
     Safe_Link("http", "files.local", 0, "clips/a.mp4",
               {"http", "https", "rtsp"})}

BuilderPorts == {8554, 8555}

\* the values the updates so far replaced and that are no longer held
Replaced(old, new) ==
    [uid |-> (old.replaced.uid \cup {old.UID}) \ {new.UID},
     otp |-> (old.replaced.otp \cup {old.OTP}) \ {new.OTP},
     timeout |-> (old.replaced.timeout \cup {old.timeout}) \ {new.timeout}]

NothingReplaced == [uid |-> {}, otp |-> {}, timeout |-> {}]

OthersIdleForBuilder ==
    /\ CredIdle
    /\ RegistryIdle
    /\ ThreadsIdle
    /\ MediaIdle
    /\ LinkIdle
    /\ SetupIdle

\* a builder of either version, as its constructor leaves it; next to the
\* object the state keeps the last call, its result and the replaced values,
\* and after a synthesis the source, the type and the port the call was given
InitBuilder ==
    /\ OthersIdleForBuilder
    /\ \E uid \in BuilderUIDs, linked_device \in {"dev-9", "cam-1"},
          otp \in BuilderOTPs, input_type \in IngestType :
        \/ ffmpeg = FFMPEG_Command_Builder_init(uid, linked_device, otp,
                                                5000000, input_type)
                    @@ [op |-> "__init__", ret |-> OkNone,
                        replaced |-> NothingReplaced]
        \/ /\ input_type = CAMERA
           /\ ffmpeg = FFMPEG_Command_Builder_legacy(uid, linked_device, otp,
                                                     5000000)
                       @@ [op |-> "__init__", ret |-> OkNone,
                           replaced |-> NothingReplaced]

Do_update_metadata ==
    /\ ffmpeg.module = "blueprints"
    /\ \E timeout \in BuilderTimeouts \cup {0, -1},
          uid \in BuilderUIDs \cup {""}, otp \in BuilderOTPs \cup {""} :
        LET new == update_metadata(ffmpeg, timeout, uid, otp) IN
        ffmpeg' = [new EXCEPT !.op = "update_metadata", !.ret = OkNone,
                              !.replaced = Replaced(ffmpeg, new)]
    /\ UNCHANGED <<credVars, regVars, threadVars, mediaVars, link, server>>

Do_run_on_ready ==
    /\ ffmpeg.module = "blueprints"
    /\ \E source \in BuilderSources, input_type \in IngestType \cup {-1},
          port \in BuilderPorts :
        LET r == run_on_ready(ffmpeg, source, input_type, port) IN
        ffmpeg' = [source |-> source, type |-> input_type, port |-> port]
                  @@ [r.self EXCEPT !.op = "run_on_ready", !.ret = r.ret]
    /\ UNCHANGED <<credVars, regVars, threadVars, mediaVars, link, server>>

Do_ChangeTimeout ==
    /\ ffmpeg.module = "TakatVideo_api"
    /\ \E timeout \in BuilderTimeouts \cup {0, -1},
          uid \in BuilderUIDs \cup {""}, otp \in BuilderOTPs \cup {""} :
        LET new == ChangeTimeout(ffmpeg, timeout, uid, otp) IN
        ffmpeg' = [new EXCEPT !.op = "ChangeTimeout", !.ret = OkNone,
                              !.replaced = Replaced(ffmpeg, new)]
    /\ UNCHANGED <<credVars, regVars, threadVars, mediaVars, link, server>>

Do_RunOnReady ==
    /\ ffmpeg.module = "TakatVideo_api"
    /\ \E Source \in BuilderSources, type_int \in IngestType \cup {4},
          port \in BuilderPorts :
        LET r == RunOnReady(ffmpeg, type_int, Source, port) IN
        ffmpeg' = [source |-> Source, type |-> type_int, port |-> port]
                  @@ [r.self EXCEPT !.op = "RunOnReady", !.ret = r.ret]
    /\ UNCHANGED <<credVars, regVars, threadVars, mediaVars, link, server>>

NextBuilder ==
    \/ Do_update_metadata
    \/ Do_run_on_ready
    \/ Do_ChangeTimeout
    \/ Do_RunOnReady

SpecBuilder == InitBuilder /\ [][NextBuilder]_vars

\* a command was synthesized by the last call
Synthesized ==
    /\ ffmpeg.op \in {"run_on_ready", "RunOnReady"}
    /\ ffmpeg.ret.kind = "return"
    /\ Contains(ffmpeg.ret.val, "ffmpeg ")

\* C30: after the timeout, UID or OTP of the builder is updated, every
\* command synthesized later carries the values now held in its timeout
\* flag, its uid and otp metadata and its output target, and carries in
\* none of these places a value that an update replaced.
C30_NoStaleMetadataAfterUpdate ==
    Synthesized =>
        LET cmd == ffmpeg.ret.val IN
        /\ Contains(cmd, "-timeout " \o ToString(ffmpeg.timeout) \o " ")
        /\ Contains(cmd, " uid=\"" \o ffmpeg.UID \o "\"")
        /\ Contains(cmd, " otp=\"" \o ffmpeg.OTP \o "\"")
        /\ Contains(cmd, "/" \o ffmpeg.UID \o "/stream\"")
        /\ \A v \in ffmpeg.replaced.timeout :
              ~Contains(cmd, "-timeout " \o ToString(v) \o " ")
        /\ \A v \in ffmpeg.replaced.uid :
              /\ ~Contains(cmd, " uid=\"" \o v \o "\"")
              /\ ~Contains(cmd, "/" \o v \o "/stream\"")
        /\ \A v \in ffmpeg.replaced.otp :
              ~Contains(cmd, " otp=\"" \o v \o "\"")

\* a command synthesized after updates that replaced the timeout, the UID
\* and the OTP
C30_Witness ==
    /\ Synthesized
    /\ ffmpeg.replaced.timeout # {}
    /\ ffmpeg.replaced.uid # {}
    /\ ffmpeg.replaced.otp # {}

-----------------------------------------------------------------------------
(* Change_OTP of a camera and the command its builder synthesizes next      *)

\* C31: Change_OTP(new_otp) sets the camera's OTP to new_otp, makes the next
\* synthesized ingestion command carry new_otp in its otp metadata field
\* (the metadata_template of the camera's command builder, which _ingest
\* reads), and sends no request to the external server.
C31_ChangeOtpRegeneratesCommand ==
    [][camera'.op = "Change_OTP" =>
          /\ camera'._otp \in CameraOTPs
          /\ Contains(metadata_template(camera'._ffmpeg_command),
                      " otp=\"" \o camera'._otp \o "\"")
          /\ camera'.lastExternal = camera.lastExternal
          /\ camera'.wire = camera.wire]_vars

-----------------------------------------------------------------------------
(* the input path of a synthesized command                                  *)

\* Safe_Link.Root(): protocol, host and port of the link, ending in "/"
Root(self) ==
    self.Protocol \o "://" \o self.Host
    \o (IF self.Port # 0 THEN ":" \o ToString(self.Port) ELSE "") \o "/"

\* the source type a synthesis resolved: blueprints keeps it in _last_type,
\* TakatVideo_api maps the integer it was given through _enum
ResolvedType ==
    IF ffmpeg.module = "blueprints" THEN ffmpeg._last_type
    ELSE _enum(ffmpeg.type)

\* the input path the three source types are to give
InputPathOf(type_, source) ==
    CASE type_ = CAMERA -> source.Hyperlink
      [] type_ = NETWORKED_MP4 -> Root(source) \o source.URL
      [] type_ = LOCAL_MP4 -> source.URL

\* C32: the input path of a synthesized command is a function of the source
\* type: the source's full address for camera, the source's root URL
\* followed by its relative path for networked-file, and the relative path
\* alone for local-file.
C32_InputPathBySourceType ==
    Synthesized =>
        Contains(ffmpeg.ret.val,
                 " -i \"" \o InputPathOf(ResolvedType, ffmpeg.source)
                 \o "\" -c copy ")

-----------------------------------------------------------------------------
(* the reserved source type YOLO                                            *)

\* the last call asked the builder to synthesize a command
SynthesisCalled == ffmpeg.op \in {"run_on_ready", "RunOnReady"}

\* C33: for the reserved source type YOLO the synthesizer signals "not
\* implemented" and produces no ingestion command: the call ends in
\* NotImplementedError (blueprints) or returns the text that says so
\* (TakatVideo_api), never an ffmpeg command, so there is no command of that
\* type a caller could place in a run-on-ready hook.
C33_YoloNotImplemented ==
    (SynthesisCalled /\ ResolvedType = YOLO) =>
        /\ ~Synthesized
        /\ \/ ffmpeg.ret = Raise("NotImplementedError")
           \/ /\ ffmpeg.ret.kind = "return"
              /\ Contains(ffmpeg.ret.val, "not yet implemented")

\* a synthesis for YOLO, asked of a builder that holds another type
C33_Witness ==
    /\ SynthesisCalled
    /\ ResolvedType = YOLO
    /\ ffmpeg.module = "blueprints" => ffmpeg._input_type # YOLO

-----------------------------------------------------------------------------
(* the layout of a synthesized command                                      *)

\* whether the texts of parts occur in str one after the other, each after
\* the end of the one before, from position from on
RECURSIVE InOrder(_, _, _)
InOrder(str, parts, from) ==
    IF Len(parts) = 0 THEN TRUE
    ELSE LET p == Head(parts)
             at == {i \in from..(Len(str) - Len(p) + 1) :
                       SubSeq(str, i, i + Len(p) - 1) = p}
         IN  /\ at # {}
             /\ InOrder(str, Tail(parts),
                        (CHOOSE i \in at : \A j \in at : i <= j) + Len(p))

\* whether str ends with suffix
EndsWith(str, suffix) ==
    /\ Len(str) >= Len(suffix)
    /\ SubSeq(str, Len(str) - Len(suffix) + 1, Len(str)) = suffix

\* the output target of the builder for a destination port
OutputTarget(port) ==
    "rtsp://127.0.0.1:" \o ToString(port) \o "/" \o ffmpeg.UID \o "/stream"

\* C34: every synthesized ingestion command holds, in this order, the
\* timeout flag, the indefinite-loop flag, the resolved input path (which
\* ends with the source's relative path), the codec-copy flag, the metadata
\* pairs uid, linked_device and otp, and the output target, and the output
\* target is exactly rtsp://127.0.0.1:<destination port>/<uid>/stream.
C34_CommandLayout ==
    Synthesized =>
        LET cmd == ffmpeg.ret.val IN
        /\ InOrder(cmd,
                   << "-timeout " \o ToString(ffmpeg.timeout) \o " ",
                      "-stream_loop -1 ",
                      "-i \"",
                      ffmpeg.source.URL \o "\" ",
                      "-c copy ",
                      "-metadata uid=\"" \o ffmpeg.UID \o "\" ",
                      "-metadata linked_device=\"" \o ffmpeg.Linked_Device
                          \o "\" ",
                      "-metadata otp=\"" \o ffmpeg.OTP \o "\" ",
                      "-f rtsp \"" \o OutputTarget(ffmpeg.port) \o "\"" >>, 1)
        /\ EndsWith(cmd, " \"" \o OutputTarget(ffmpeg.port) \o "\"")

\* a command synthesized for a local file on the second destination port,
\* by a builder whose linked device differs from its UID
C34_Witness ==
    /\ Synthesized
    /\ ResolvedType = LOCAL_MP4
    /\ ffmpeg.port = 8555
    /\ ffmpeg.Linked_Device # ffmpeg.UID

-----------------------------------------------------------------------------
(* the protocol of a Safe_Link and its allowed protocols                    *)

\* C35: in every state reached through construction and any sequence of
\* Update calls, with or without an allowed_protocols argument, the Protocol
\* of a Safe_Link is a member of that link's own allowed_protocols.
C35_ProtocolInAllowedSet ==
    link.phase = "live" => link.self.Protocol \in link.self.allowed_protocols

-----------------------------------------------------------------------------
(* add_video_object in one thread and remove_video_object_by_uid in another *)
(* (List_Video_Objects.py lines 6-25).  remove reads the length of the      *)
(* list, builds the filtered copy, binds VIDEO_OBJECTS to the copy and then *)
(* compares the lengths; the interpreter can switch threads between any two *)
(* of these steps.                                                          *)

\* thread t calls remove_video_object_by_uid(camera_uid)
Thread_remove_call(t) ==
    \E camera_uid \in LookupUIDs :
        /\ pc[t] = "idle"
        /\ pc' = [pc EXCEPT ![t] = "original_len"]
        /\ frame' = [frame EXCEPT ![t] = [obj |-> PyNone, uid |-> camera_uid,
                                          out |-> PyNone, original_len |-> 0,
                                          kept |-> <<>>]]
        /\ UNCHANGED <<credVars, regVars, mediaVars, apiVars>>

\* thread t runs the next step of its remove_video_object_by_uid call:
\*   original_len  original_len = len(VIDEO_OBJECTS)
\*   filter        the list comprehension over VIDEO_OBJECTS
\*   store         VIDEO_OBJECTS = <the new list>
\*   return        return len(VIDEO_OBJECTS) < original_len
remove_video_object_by_uid_step(t) ==
    /\ pc[t] \in {"original_len", "filter", "store", "return"}
    /\ LET f == frame[t]
           kept == FilterNotCamera(VIDEO_OBJECTS, f.uid)
           done(out) == /\ pc' = [pc EXCEPT ![t] = "done"]
                        /\ frame' = [frame EXCEPT ![t].out = out]
                        /\ UNCHANGED VIDEO_OBJECTS
       IN  CASE pc[t] = "original_len" ->
                    /\ pc' = [pc EXCEPT ![t] = "filter"]
                    /\ frame' = [frame EXCEPT
                                    ![t].original_len = Len(VIDEO_OBJECTS)]
                    /\ UNCHANGED VIDEO_OBJECTS
             [] pc[t] = "filter" ->
                    IF kept.kind = "raise" THEN done(kept)
                    ELSE /\ pc' = [pc EXCEPT ![t] = "store"]
                         /\ frame' = [frame EXCEPT ![t].kept = kept.val]
                         /\ UNCHANGED VIDEO_OBJECTS
             [] pc[t] = "store" ->
                    /\ VIDEO_OBJECTS' = f.kept
                    /\ pc' = [pc EXCEPT ![t] = "return"]
                    /\ UNCHANGED frame
             [] pc[t] = "return" ->
                    done(Ok(Len(VIDEO_OBJECTS) < f.original_len))
    /\ UNCHANGED <<credVars, reg, mediaVars, apiVars>>

\* thread 1 adds, thread 2 removes
NextRace ==
    \/ Thread_call(1)
    \/ add_video_object_step(1)
    \/ Thread_remove_call(2)
    \/ remove_video_object_by_uid_step(2)

SpecRace == InitRegistry /\ [][NextRace]_vars

-----------------------------------------------------------------------------
(* remove_video_object_by_uid against get_video_object_by_uid               *)

\* a session that find_by_uid(u) is to match: u is its primary UID or its
\* linked-device UID
MatchedBy(obj, u) == u \in SessionUIDs(obj)

\* the sessions of a list that u does not match, in their order
RECURSIVE NotMatched(_, _)
NotMatched(objs, u) ==
    IF objs = <<>> THEN <<>>
    ELSE (IF MatchedBy(Head(objs), u) THEN <<>> ELSE <<Head(objs)>>)
         \o NotMatched(Tail(objs), u)

\* C37: remove_by_uid(u) returns true if and only if a session matched by
\* find_by_uid(u) was registered; after it returns no registered session is
\* matched by u, and every session not matched by u is still registered and
\* unchanged.
C37_RemoveAgreesWithFind ==
    [][reg'.op = "remove_video_object_by_uid" =>
          /\ reg'.out.kind = "return"
          /\ reg'.out.val = (\E i \in 1..Len(VIDEO_OBJECTS) :
                                MatchedBy(VIDEO_OBJECTS[i], reg'.uid))
          /\ VIDEO_OBJECTS' = NotMatched(VIDEO_OBJECTS, reg'.uid)]_vars

-----------------------------------------------------------------------------
(* the UID of a session                                                     *)

\* C38: the UID of a Video_Object is the primary UID of its credentials: for
\* a session constructed with the seed UID "u1" the property UID returns
\* "u1" and never fails, and "u1" is the primary entry of the roster.
C38_UidIsPrimaryUid ==
    session.phase = "object" =>
        /\ primary_uid(session._credentials.uids) = "u1"
        /\ UID(session) = Ok("u1")

-----------------------------------------------------------------------------
(* the local configurations of the two cameras of a session                 *)

\* the _config of a camera of the session: both cameras are built with
\* config=self._main_Config (lines 793 and 811), so each holds a reference
\* to the one object
camera_config_of(s, which) == s._main_Config

\* the statement that ran in the step patched a key through this camera
PatchedThrough(which) ==
    /\ session.phase = "constructing"
    /\ Len(session'.calls) = Len(session.calls) + 1
    /\ session'.calls[Len(session'.calls)].camera = which
    /\ session'.calls[Len(session'.calls)].request = "PATCH"

\* C39: the two cameras of a session have independent local configurations:
\* an Update_Path_Single_Value on the virtual camera (for example of source)
\* leaves the local configuration of the source camera unchanged, and an
\* update on the source camera leaves that of the virtual camera unchanged.
C39_CameraConfigsIndependent ==
    [][/\ PatchedThrough("virtual") =>
            camera_config_of(session', "source")
                = camera_config_of(session, "source")
       /\ PatchedThrough("source") =>
            camera_config_of(session', "virtual")
                = camera_config_of(session, "virtual")]_vars

-----------------------------------------------------------------------------
(* ServerSetup requests that fail                                           *)

\* C40: a ServerSetup request that is answered with 400 leaves every
\* configuration value and the setup lock as they were before the request:
\* no field of a failed request is applied.
C40_FailedSetupChangesNothing ==
    [][server'.status = 400 => server'.globals = server.globals]_vars
====
